---- MODULE Spec2Model ----
(***************************************************************************)
(* A model of two subsystems of the io-engine:                             *)
(*   - NexusChild (bdev/nexus/nexus_child.rs): the child state machine     *)
(*     and its open / online / close / unplug choreography;                *)
(*   - RebuildJobBackend (rebuild/rebuild_job_backend.rs): the run loop    *)
(*     that drives the pool of segment copy tasks.                         *)
(* SpecChild runs the child, SpecRebuild runs the rebuild backend.         *)
(***************************************************************************)
EXTENDS Integers, Sequences, FiniteSets, TLC

(***************************************************************************)
(* Bounds of the model.                                                    *)
(***************************************************************************)
\* Number of concurrent callers of close() / close_faulted().
NClosers == 2
\* Number of unplug_complete futures spawned and not yet sent.
MaxSends == 2
\* Number of removal events left undelivered by close() calls that returned.
MaxStale == 1
\* Size of the child device, in bytes.
ChildSize == 2
\* Largest reservation key of the model.
MaxKey == 2

(***************************************************************************)
(* NexusChild: types.                                                      *)
(***************************************************************************)
FaultReasons ==
    {"Unknown", "CantOpen", "NoSpace", "TimedOut", "IoError", "RebuildFailed",
     "AdminCommandFailed", "Offline", "OfflinePermanent"}

\* FaultReason::is_recoverable
ReasonIsRecoverable(r) ==
    r \in {"NoSpace", "TimedOut", "IoError", "Offline", "AdminCommandFailed",
           "RebuildFailed"}

\* ChildState: the four plain states carry the reason "NoReason".
Plain(k) == [k |-> k, r |-> "NoReason"]
Faulted(r) == [k |-> "Faulted", r |-> r]
ChildStates ==
    {Plain(k) : k \in {"Init", "ConfigInvalid", "Open", "Closed"}}
        \cup {Faulted(r) : r \in FaultReasons}

\* ChildState::is_open_or_init
IsOpenOrInit(st) == st.k \in {"Open", "Init", "ConfigInvalid"}

StateIsAlwaysRecoverable(st) == TRUE

\* ChildState::is_recoverable
StateIsRecoverable(st) ==
    IF st.k = "Faulted" THEN ReasonIsRecoverable(st.r) ELSE st.k = "Closed"

IsPermFaulted(st) == st.k = "Faulted" /\ ~ReasonIsRecoverable(st.r)

\* The reasons callers pass to set_faulted_state / close_faulted in the model:
\* the reason unplug() singles out, one more recoverable and one permanent.
InputReasons == {"IoError", "Offline", "OfflinePermanent"}
\* The parent sizes callers pass to open / online.
ParentSizes == {ChildSize, ChildSize + 1}
SyncStates == {"Synced", "OutOfSync"}
Closers == 1 .. NClosers

VARIABLES
    \* NexusChild fields
    state, sync_state, destroy_state, faulted_at, remove_channel,
    device, device_descriptor, claimed,
    \* unplug_complete futures spawned on the reactor and not yet sent
    sends,
    \* device layer: removal events raised by the device_destroy of a close()
    \* that has returned, and not delivered yet
    stale_events,
    \* callers of close(): position, pending device_destroy result, the
    \* removal event raised by the caller's device_destroy ("none", "raised",
    \* "delivered"), reason of the enclosing close_faulted
    cpc, cres, cev, creason,
    \* the caller of online(): position
    opc,
    \* "no", or the operation that aborted the process
    child_abort,
    \* the last operation that returned and its result
    ret,
    \* history: device_destroy calls since destroy_state was last None, and
    \* whether the child was ever permanently faulted
    dd_calls, was_perm

childVars ==
    <<state, sync_state, destroy_state, faulted_at, remove_channel, device,
      device_descriptor, claimed, sends, stale_events, cpc, cres, cev,
      creason, opc, child_abort, ret, dd_calls, was_perm>>

Ret(op, res) == [op |-> op, res |-> res]

\* NexusChild::new
ChildInit ==
    /\ state = Plain("Init")
    /\ sync_state = "Synced"
    /\ destroy_state = "None"
    /\ faulted_at = FALSE
    /\ remove_channel = 0
    /\ device \in BOOLEAN
    /\ device_descriptor = FALSE
    /\ claimed = FALSE
    /\ sends = 0
    /\ stale_events = 0
    /\ cpc = [c \in Closers |-> "idle"]
    /\ cres = [c \in Closers |-> "none"]
    /\ cev = [c \in Closers |-> "none"]
    /\ creason = [c \in Closers |-> "NoReason"]
    /\ opc = "idle"
    /\ child_abort = "no"
    /\ ret = Ret("new", "Ok")
    /\ dd_calls = 0
    /\ was_perm = FALSE


(***************************************************************************)
(* NexusChild: operations.                                                 *)
(***************************************************************************)
\* NexusChild::is_destroying
IsDestroying == destroy_state = "Destroying"

\* open(): the state check that rejects a permanently faulted child.
OpenRejectsNothing(st) == FALSE
OpenRejectsFaulted(st) == st.k = "Faulted" /\ ~ReasonIsRecoverable(st.r)

\* close(): compare_exchange(None, Destroying) succeeds.
CloseWinsCasAlways == TRUE
CloseWinsCas == destroy_state = "None"

CloseWaitsAlways(st) == TRUE

\* close(): the wait on remove_channel is taken unless the child is Init.
CloseWaitsForRemoval(st) == st.k # "Init"

\* unplug(): the state at entry that is changed to Closed.
UnplugClosesNothing(st) == FALSE
UnplugCloses(st) == st.k = "Open"

\* unplug(): the descriptor is taken only on the programmed-destroy path.
UnplugKeepsDescriptor(is_destroying) == FALSE
UnplugDropsDescriptor(is_destroying) == is_destroying

UnplugKeepsDevice(is_destroying) == FALSE

\* unplug(): the device is dropped only on the programmed-destroy path.
UnplugDropsDevice(is_destroying) == is_destroying

\* set_faulted_state(reason) as the last step of an operation whose other
\* effects on state and faulted_at are none.
SetFaulted(reason) ==
    /\ state' = Faulted(reason)
    /\ faulted_at' = TRUE

\* The tail of close_faulted(): after close() returned, set the fault; a
\* plain close() (reason "NoReason") leaves state and faulted_at alone.
AfterClose(reason) ==
    IF reason = "NoReason"
    THEN UNCHANGED <<state, faulted_at>>
    ELSE SetFaulted(reason)

CloseOp(reason) == IF reason = "NoReason" THEN "close" ELSE "close_faulted"

AlreadyOpenNever(st) == FALSE

\* open(): the branch taken for a child whose state is already Open.
AlreadyOpen(st) == st.k = "Open"

ChildTooSmallOrEqual(parent_size, child_size) == parent_size >= child_size

\* open(): the size check, `parent_size > child_size`.
ChildTooSmall(parent_size, child_size) == parent_size > child_size

\* open(parent_size, s) with `dev` the device the child holds when open()
\* runs and `open_ok` the outcome of dev.open(true).
OpenBody(op, parent_size, s, dev, open_ok) ==
    IF IsDestroying
    THEN /\ ret' = Ret(op, "ChildBeingDestroyed")
         /\ UNCHANGED <<state, sync_state, faulted_at, device_descriptor,
                        claimed, child_abort>>
    ELSE IF OpenRejectsFaulted(state)
    THEN /\ ret' = Ret(op, "ChildFaulted")
         /\ UNCHANGED <<state, sync_state, faulted_at, device_descriptor,
                        claimed, child_abort>>
    ELSE IF AlreadyOpen(state)
    THEN \* assert!(device.is_some()); assert!(device_descriptor.is_some())
         /\ child_abort' = IF dev /\ device_descriptor THEN "no"
                           ELSE "open_assert"
         /\ ret' = IF dev /\ device_descriptor THEN Ret(op, "Ok") ELSE ret
         /\ UNCHANGED <<state, sync_state, faulted_at, device_descriptor,
                        claimed>>
    ELSE IF ~dev
    THEN \* self.device.as_ref().unwrap()
         /\ child_abort' = "open_unwrap"
         /\ UNCHANGED <<state, sync_state, faulted_at, device_descriptor,
                        claimed, ret>>
    ELSE IF ChildTooSmall(parent_size, ChildSize)
    THEN /\ state' = Plain("ConfigInvalid")
         /\ ret' = Ret(op, "ChildTooSmall")
         /\ UNCHANGED <<sync_state, faulted_at, device_descriptor, claimed,
                        child_abort>>
    ELSE IF ~open_ok
    THEN /\ SetFaulted("CantOpen")
         /\ ret' = Ret(op, "OpenChild")
         /\ UNCHANGED <<sync_state, device_descriptor, claimed, child_abort>>
    ELSE /\ device_descriptor' = TRUE
         /\ claimed' = TRUE
         /\ state' = Plain("Open")
         /\ sync_state' = s
         /\ ret' = Ret(op, "Ok")
         /\ UNCHANGED <<faulted_at, child_abort>>

\* NexusChild::open. open() and online() both take the child by exclusive
\* reference (&mut self), so open() is not entered while online() is
\* suspended; close(), close_faulted() and set_faulted_state() take a shared
\* reference and unplug() is the device layer's event callback, so these do
\* interleave with a suspended online() or close().
Open(parent_size, s) ==
    /\ opc = "idle"
    /\ \E open_ok \in BOOLEAN : OpenBody("open", parent_size, s, device, open_ok)
    /\ UNCHANGED <<destroy_state, remove_channel, device, sends, stale_events,
                   cpc, cres, cev, creason, opc,
                   dd_calls>>

\* NexusChild::set_faulted_state
SetFaultedState(reason) ==
    /\ SetFaulted(reason)
    /\ ret' = Ret("set_faulted_state", "Ok")
    /\ UNCHANGED <<sync_state, destroy_state, remove_channel, device,
                   device_descriptor, claimed, sends, stale_events, cpc, cres, cev, creason, opc, child_abort,
                   dd_calls>>

\* NexusChild::online, up to the await of device_create.
OnlineCall ==
    /\ opc = "idle"
    /\ IF IsOpenOrInit(state)
       THEN /\ ret' = Ret("online", "CannotOnlineChild")
            /\ UNCHANGED opc
       ELSE IF IsDestroying
       THEN /\ ret' = Ret("online", "ChildBeingDestroyed")
            /\ UNCHANGED opc
       ELSE IF ~StateIsRecoverable(state)
       THEN /\ ret' = Ret("online", "PermanentlyFaulted")
            /\ UNCHANGED opc
       ELSE /\ opc' = "creating"
            /\ UNCHANGED ret
    /\ UNCHANGED <<state, sync_state, destroy_state, faulted_at,
                   remove_channel, device, device_descriptor, claimed, sends,
                   stale_events, cpc, cres, cev,
                   creason, child_abort, dd_calls>>

\* NexusChild::online, from the return of device_create: `created` is its
\* outcome, `found` the outcome of device_lookup, `parent_size` the argument
\* of the call (not read before this point).
OnlineCreated(parent_size, created, found, open_ok) ==
    /\ opc = "creating"
    /\ opc' = "idle"
    /\ IF ~created
       THEN /\ ret' = Ret("online", "ChildBdevCreate")
            /\ UNCHANGED <<state, sync_state, faulted_at, device,
                           device_descriptor, claimed, child_abort>>
       ELSE IF ~found
       THEN /\ device' = FALSE
            /\ ret' = Ret("online", "ChildInaccessible")
            /\ UNCHANGED <<state, sync_state, faulted_at, device_descriptor,
                           claimed, child_abort>>
       ELSE /\ device' = TRUE
            /\ OpenBody("online", parent_size, "OutOfSync", TRUE, open_ok)
    /\ UNCHANGED <<destroy_state, remove_channel, sends, stale_events,
                   cpc, cres, cev, creason, dd_calls>>

\* The caller that makes the next call of close(): callers are
\* interchangeable, the idle one of lowest index is taken.
NextCloser(c) == cpc[c] = "idle" /\ \A d \in Closers : d < c => cpc[d] # "idle"

\* NexusChild::close (reason "NoReason") or close_faulted(reason), up to the
\* await of device_destroy; `destroy_ok` is the outcome device_destroy will
\* have, and a successful destroy raises a removal event.
CloseCall(c, reason, destroy_ok) ==
    /\ NextCloser(c)
    /\ IF ~CloseWinsCas
       THEN /\ ret' = Ret(CloseOp(reason), "OkAlreadyClosing")
            /\ AfterClose(reason)
            /\ UNCHANGED <<destroy_state, claimed, cpc, cres, cev,
                           creason, dd_calls>>
       ELSE IF ~device
       THEN /\ destroy_state' = "None"
            /\ dd_calls' = 0
            /\ ret' = Ret(CloseOp(reason), "OkNoDevice")
            /\ AfterClose(reason)
            /\ UNCHANGED <<claimed, cpc, cres, cev, creason>>
       ELSE /\ destroy_state' = "Destroying"
            /\ claimed' = FALSE
            /\ dd_calls' = dd_calls + 1
            /\ cpc' = [cpc EXCEPT ![c] = "destroy"]
            /\ cres' = [cres EXCEPT ![c] = IF destroy_ok THEN "Ok" ELSE "Err"]
            /\ cev' = [cev EXCEPT ![c] = IF destroy_ok THEN "raised" ELSE "none"]
            /\ creason' = [creason EXCEPT ![c] = reason]
            /\ UNCHANGED <<state, faulted_at, ret>>
    /\ UNCHANGED <<sync_state, remove_channel, device, device_descriptor,
                   sends, stale_events, opc, child_abort>>

\* close() returns: the caller goes idle; a removal event it raised and that
\* was not delivered stays with the device layer.
CloseReturn(c, res) ==
    /\ ret' = Ret(CloseOp(creason[c]), res)
    /\ AfterClose(creason[c])
    /\ cpc' = [cpc EXCEPT ![c] = "idle"]
    /\ cres' = [cres EXCEPT ![c] = "none"]
    /\ cev' = [cev EXCEPT ![c] = "none"]
    /\ creason' = [creason EXCEPT ![c] = "NoReason"]
    /\ cev[c] = "raised" => stale_events < MaxStale
    /\ stale_events' = IF cev[c] = "raised" THEN stale_events + 1
                       ELSE stale_events

\* close(): device_destroy has returned.
DeviceDestroyReturn(c) ==
    /\ cpc[c] = "destroy"
    /\ IF cres[c] = "Ok" /\ CloseWaitsForRemoval(state)
       THEN /\ cpc' = [cpc EXCEPT ![c] = "wait"]
            /\ cres' = [cres EXCEPT ![c] = "none"]
            /\ UNCHANGED <<state, faulted_at, destroy_state, cev, creason,
                           ret, dd_calls, stale_events>>
       ELSE /\ destroy_state' = "None"
            /\ dd_calls' = 0
            /\ CloseReturn(c, IF cres[c] = "Ok" THEN "Ok" ELSE "Err")
    /\ UNCHANGED <<sync_state, remove_channel, device, device_descriptor,
                   claimed, sends, opc, child_abort>>

\* close(): remove_channel.1.recv() has returned a signal.
CloseRecv(c) ==
    /\ cpc[c] = "wait"
    /\ remove_channel > 0
    /\ remove_channel' = remove_channel - 1
    /\ destroy_state' = "None"
    /\ dd_calls' = 0
    /\ CloseReturn(c, "Ok")
    /\ UNCHANGED <<sync_state, device, device_descriptor, claimed, sends,
                   opc, child_abort>>

\* NexusChild::unplug, including the unplug_complete() it ends with, which
\* spawns the future that sends the signal.
UnplugBody ==
    LET st == state
        is_destroying == IsDestroying
    IN  /\ device' = IF UnplugDropsDevice(is_destroying) THEN FALSE ELSE device
        /\ state' = IF UnplugCloses(st) THEN Plain("Closed") ELSE state
        /\ device_descriptor' = IF UnplugDropsDescriptor(is_destroying)
                                THEN FALSE ELSE device_descriptor
        /\ claimed' = IF UnplugDropsDescriptor(is_destroying)
                      THEN FALSE ELSE claimed
        /\ sends < MaxSends
        /\ sends' = sends + 1

\* The removal event raised by the device_destroy of caller c, who is still
\* inside close(), is delivered.
Unplug(c) ==
    /\ cev[c] = "raised"
    /\ cev' = [cev EXCEPT ![c] = "delivered"]
    /\ UnplugBody
    /\ UNCHANGED <<sync_state, destroy_state, faulted_at, remove_channel,
                   stale_events, cpc, cres, creason,
                   opc, child_abort, ret, dd_calls>>

\* A removal event raised by the device_destroy of a close() that has
\* returned is delivered.
UnplugLate ==
    /\ stale_events > 0
    /\ stale_events' = stale_events - 1
    /\ UnplugBody
    /\ UNCHANGED <<sync_state, destroy_state, faulted_at, remove_channel,
                   cpc, cres, cev, creason, opc,
                   child_abort, ret, dd_calls>>

\* The device layer raises a removal event of its own (hot remove).
HotRemove ==
    /\ device
    /\ UnplugBody
    /\ UNCHANGED <<sync_state, destroy_state, faulted_at, remove_channel,
                   stale_events, cpc, cres, cev, creason, opc,
                   child_abort, ret, dd_calls>>

\* The future spawned by unplug_complete() sends on the bounded(1) channel.
UnplugCompleteSend ==
    /\ sends > 0
    /\ remove_channel = 0
    /\ remove_channel' = 1
    /\ sends' = sends - 1
    /\ UNCHANGED <<state, sync_state, destroy_state, faulted_at, device,
                   device_descriptor, claimed, stale_events, cpc, cres, cev, creason, opc, child_abort, ret,
                   dd_calls>>

(***************************************************************************)
(* RebuildJobBackend: bounds and types.                                    *)
(***************************************************************************)
\* Number of tasks of the pool (SEGMENT_TASKS), scaled down.
SegmentTasks == 2
\* Blocks per segment (SEGMENT_SIZE / block_size), scaled down.
SegmentSizeBlks == 2
\* End of the rebuild range, in blocks.
RangeEnd == 5
\* Number of requests queued on the frontend-backend channel.
MaxInfo == 1
\* Number of segment copies that fail with an I/O error.
MaxErrors == 2

\* The ranges of the jobs: unaligned, aligned and empty.
Ranges == {<<s, RangeEnd>> : s \in {0, 1, RangeEnd}}
TaskIds == 0 .. SegmentTasks - 1
RebuildStatesSet ==
    {"Init", "Running", "Paused", "Stopped", "Completed", "Failed"}

\* RebuildState::done
Done(st) == st \in {"Stopped", "Completed", "Failed"}

NoError == [kind |-> "None", blk |-> 0]
IoErr(blk) == [kind |-> "Io", blk |-> blk]
FrontendGone == [kind |-> "FrontendGone", blk |-> 0]

Min(a, b) == IF a < b THEN a ELSE b

VARIABLES
    \* position of run(): "reconcile" (top of the outer loop), "start"
    \* (before start_all_tasks), "recv" (awaiting info_chan while not
    \* running), "select" (awaiting in the inner loop), "drain" (awaiting
    \* manage_tasks after FrontendGone), "exit", "dropped", "panic" (stats()
    \* aborted), "active_assert" (the assertion of start_all_tasks failed)
    rpc,
    \* position of the manage_tasks future being polled: "top" (awaiting in
    \* manage_tasks itself) or "await_all" (awaiting inside await_all_tasks)
    mt,
    \* RebuildStates
    current, pending, error,
    \* descriptor.range, next block to dispatch
    range_start, range_end, next,
    \* RebuildTasks: counters, the tasks, the completion channel
    active, segments_done, segments_transferred, tasks, tchan,
    \* descriptor.rebuild_map: installed or not, and its dirty segments
    map_set, dirty,
    \* info_chan: queued requests, senders held by frontend handles
    info_chan, frontend_senders,
    \* history: number of failed copies, whether a task reported an error,
    \* the first error stored by fail_with
    io_errors, task_failed, first_error,
    \* what the latest reconcile() emitted: the number of calls of notify_fn
    \* and the messages it sent on notify_chan
    notify_fn, notify_chan,
    \* what the handling of the latest request sent on the oneshot channel of
    \* the request: "none", "stats" (reply_stats) or "ack" (set_rebuild_map)
    oneshot

rebuildVars ==
    <<rpc, mt, current, pending, error, range_start, range_end, next, active,
      segments_done, segments_transferred, tasks, tchan, map_set, dirty,
      info_chan, frontend_senders, io_errors, task_failed, first_error,
      notify_fn, notify_chan, oneshot>>

(***************************************************************************)
(* The client-visible state.                                               *)
(***************************************************************************)
ReportsFaultingNever(desc, destroying) == FALSE

\* state_client(): a Faulted child is reported as Faulting while it is
\* being destroyed or still owns a descriptor.
ReportsFaulting(desc, destroying) == destroying \/ desc

\* NexusChild::state_client, as a function of the state, the sync state,
\* the presence of a descriptor and the destroy state.
StateClient(st, sync, desc, destroying) ==
    IF st.k = "Open" /\ sync = "OutOfSync"
    THEN Plain("OutOfSync")
    ELSE IF st.k = "Faulted"
    THEN IF ReportsFaulting(desc, destroying)
         THEN [k |-> "Faulting", r |-> st.r]
         ELSE st
    ELSE st

\* state_client() of the child as it is.
ChildStateClient ==
    StateClient(state, sync_state, device_descriptor,
                destroy_state = "Destroying")

\* The inputs of state_client() that a child can present: a child in Init
\* has never set its sync state or stored a descriptor, and an Open child
\* owns a descriptor.
StateClientArgs ==
    {a \in [st : ChildStates, sync : SyncStates, desc : BOOLEAN,
            destroying : BOOLEAN] :
        /\ a.st.k = "Init" => (a.sync = "Synced" /\ ~a.desc)
        /\ a.st.k = "Open" => a.desc}

VARIABLES
    \* the child fields read by a call of state_client(), and what the call
    \* returned
    sc_arg, sc_ret

clientVars == <<sc_arg, sc_ret>>

NotCalled == Plain("NotCalled")

\* No call of state_client() is observed: the child as constructed.
ClientIdle ==
    /\ sc_arg = [st |-> Plain("Init"), sync |-> "Synced", desc |-> FALSE,
                 destroying |-> FALSE]
    /\ sc_ret = NotCalled

\* A call of state_client() on a child presenting sc_arg.
StateClientCall ==
    /\ sc_ret = NotCalled
    /\ sc_ret' = StateClient(sc_arg.st, sc_arg.sync, sc_arg.desc,
                             sc_arg.destroying)
    /\ UNCHANGED sc_arg

(***************************************************************************)
(* One call of unplug(), statement by statement.                           *)
(***************************************************************************)
ReconfigureAlways(st) == TRUE

\* unplug(): the parent is asked to reconfigure unless the child was
\* faulted with an I/O error, whose handling has reconfigured already.
ReconfigureRequested(st) == st # Faulted("IoError")

VARIABLES
    \* where the call of unplug() stands
    unplug_pc,
    \* its locals `state` and `is_destroying`, read at entry
    unplug_state, is_destroying,
    \* whether nexus_lookup_mut finds the parent
    nexus_found,
    \* the statements the call has executed, in order
    unplug_log

unplugVars ==
    <<unplug_pc, unplug_state, is_destroying, nexus_found, unplug_log>>

\* No call of unplug() is followed statement by statement.
UnplugIdle ==
    /\ unplug_pc = "idle"
    /\ unplug_state = Plain("Init")
    /\ is_destroying = FALSE
    /\ nexus_found = TRUE
    /\ unplug_log = <<>>

\* A signal is owed: the child is in a state that only an earlier unplug()
\* produces and whose signal no close() has received yet.
SignalOwed ==
    \/ state.k = "Closed" /\ claimed
    \/ /\ ~device /\ ~device_descriptor
       /\ \/ state.k = "Init"
          \/ /\ destroy_state = "Destroying"
             /\ state \in {Plain("ConfigInvalid"), Faulted("CantOpen")}

\* The fields of a child at the moment a removal event is delivered, as
\* the operations of the child leave them (the values SpecChild reaches in
\* the states where it can take Unplug, UnplugLate or HotRemove).
UnplugEntryState ==
    /\ state \in ChildStates
    /\ state.k = "Faulted" => state.r \in InputReasons \cup {"CantOpen"}
    /\ device \in BOOLEAN /\ device_descriptor \in BOOLEAN
    /\ claimed \in BOOLEAN
    /\ destroy_state \in {"None", "Destroying"}
    /\ state.k = "Init" => ~device_descriptor
    /\ state.k = "Open" => device /\ device_descriptor
    /\ (device_descriptor /\ ~device) =>
          state \notin {Plain("ConfigInvalid"), Faulted("CantOpen")}
    /\ claimed => device_descriptor /\ destroy_state = "None"
    /\ remove_channel \in 0..1
    /\ sends \in 0..1
    /\ SignalOwed => remove_channel + sends > 0
    /\ sync_state \in SyncStates
    /\ state.k = "Init" => sync_state = "Synced"

\* unplug() is entered: state() and is_destroying() are read.
UnplugEnter ==
    /\ unplug_pc = "idle"
    /\ unplug_state' = state
    /\ is_destroying' = IsDestroying
    /\ unplug_pc' = "device"
    /\ UNCHANGED <<nexus_found, unplug_log>>
    /\ UNCHANGED <<state, device, device_descriptor, claimed, sends,
                   remove_channel>>

\* if is_destroying { self.device = None }
UnplugDevice ==
    /\ unplug_pc = "device"
    /\ unplug_pc' = "state"
    /\ IF UnplugDropsDevice(is_destroying)
       THEN /\ device' = FALSE
            /\ unplug_log' = Append(unplug_log, "device")
       ELSE UNCHANGED <<device, unplug_log>>
    /\ UNCHANGED <<unplug_state, is_destroying, nexus_found>>
    /\ UNCHANGED <<state, device_descriptor, claimed, sends, remove_channel>>

\* if matches!(state, ChildState::Open) { self.set_state(Closed) }
UnplugSetState ==
    /\ unplug_pc = "state"
    /\ unplug_pc' = "reconfigure"
    /\ IF UnplugCloses(unplug_state)
       THEN /\ state' = Plain("Closed")
            /\ unplug_log' = Append(unplug_log, "closed")
       ELSE UNCHANGED <<state, unplug_log>>
    /\ UNCHANGED <<unplug_state, is_destroying, nexus_found>>
    /\ UNCHANGED <<device, device_descriptor, claimed, sends, remove_channel>>

\* if state != Faulted(IoError) { Reactor::block_on(...) }: the parent is
\* looked up and, when found, its reconfigure(ChildUnplug) is started.
UnplugReconfigure ==
    /\ unplug_pc = "reconfigure"
    /\ IF ~ReconfigureRequested(unplug_state)
       THEN unplug_pc' = "descriptor" /\ UNCHANGED unplug_log
       ELSE IF nexus_found
       THEN /\ unplug_pc' = "block_on"
            /\ unplug_log' = Append(unplug_log, "reconfigure")
       ELSE /\ unplug_pc' = "descriptor"
            /\ unplug_log' = Append(unplug_log, "not_found")
    /\ UNCHANGED <<unplug_state, is_destroying, nexus_found>>
    /\ UNCHANGED <<state, device, device_descriptor, claimed, sends,
                   remove_channel>>

\* Reactor::block_on returns: reconfigure(ChildUnplug) has completed.
UnplugReconfigured ==
    /\ unplug_pc = "block_on"
    /\ unplug_pc' = "descriptor"
    /\ unplug_log' = Append(unplug_log, "reconfigured")
    /\ UNCHANGED <<unplug_state, is_destroying, nexus_found>>
    /\ UNCHANGED <<state, device, device_descriptor, claimed, sends,
                   remove_channel>>

\* if is_destroying { self.device_descriptor.take() }
UnplugDescriptor ==
    /\ unplug_pc = "descriptor"
    /\ unplug_pc' = "complete"
    /\ IF UnplugDropsDescriptor(is_destroying)
       THEN /\ device_descriptor' = FALSE
            /\ claimed' = FALSE
            /\ unplug_log' = Append(unplug_log, "descriptor")
       ELSE UNCHANGED <<device_descriptor, claimed, unplug_log>>
    /\ UNCHANGED <<unplug_state, is_destroying, nexus_found>>
    /\ UNCHANGED <<state, device, sends, remove_channel>>

\* self.unplug_complete(): the future that sends the signal is spawned.
UnplugComplete ==
    /\ unplug_pc = "complete"
    /\ unplug_pc' = "done"
    /\ sends' = sends + 1
    /\ unplug_log' = Append(unplug_log, "signal")
    /\ UNCHANGED <<unplug_state, is_destroying, nexus_found>>
    /\ UNCHANGED <<state, device, device_descriptor, claimed, remove_channel>>

\* A future spawned by unplug_complete() sends its signal: the reactor
\* runs it while unplug() is inside block_on, or not running.
UnplugSend ==
    /\ unplug_pc \in {"idle", "block_on", "done"}
    /\ sends > 0
    /\ remove_channel = 0
    /\ remove_channel' = 1
    /\ sends' = sends - 1
    /\ UNCHANGED unplugVars
    /\ UNCHANGED <<state, device, device_descriptor, claimed>>

(***************************************************************************)
(* NexusChild: the NVMe reservation protocol.                              *)
(***************************************************************************)
\* The hosts of the namespace: this one and a foreign one.
Hosts == {"me", "other"}
my_hostid == "me"
ResvKeys == 1 .. MaxKey

\* NvmeReservation: the types the code tells apart (the *RegsOnly types
\* take the branches of WriteExclusive and ExclusiveAccess everywhere).
ResvTypes ==
    {"WriteExclusive", "ExclusiveAccess",
     "WriteExclusiveAllRegs", "ExclusiveAccessAllRegs"}
\* rtype 0 of a report: no reservation is held.
Reserved == "Reserved"

\* The `shared` closure and the matches! on the all-registrants types.
Shared(resv_type) ==
    resv_type \in {"WriteExclusiveAllRegs", "ExclusiveAccessAllRegs"}

\* std::env::var("NEXUS_NVMF_RESV_ENABLE"): Err when the variable is absent
\* or not unicode, Ok for every unicode value, the empty one included.
EnvValues == {"absent", "not_unicode", "empty", "set"}
EnvVarIsErr(v) == v \in {"absent", "not_unicode"}

\* NexusNvmeParams; preempt_key 0 stands for None.
NvmeParams ==
    [enabled : BOOLEAN, preempt_policy : {"ArgKey", "Holder"},
     resv_type : ResvTypes, resv_key : ResvKeys, preempt_key : 0 .. MaxKey]

\* The reservation state of the namespace: the key each host is registered
\* with (0: not registered), the type held and, for the types with one
\* holder, the holder.
NoHolder == "none"
Released(n) == [n EXCEPT !.rtype = Reserved, !.holder = NoHolder]
Namespaces ==
    {n \in [reg : [Hosts -> 0 .. MaxKey], rtype : ResvTypes \cup {Reserved},
            holder : Hosts \cup {NoHolder}] :
        /\ n.rtype = Reserved => n.holder = NoHolder
        /\ Shared(n.rtype) => n.holder = NoHolder /\ \E h \in Hosts : n.reg[h] # 0
        /\ (n.rtype # Reserved /\ ~Shared(n.rtype)) =>
              n.holder # NoHolder /\ n.reg[n.holder] # 0}

Registered(n, h) == n.reg[h] # 0
\* rcsts.status() == 1 in the report: the registrant holds the reservation.
IsHolder(n, h) ==
    /\ n.rtype # Reserved
    /\ Registered(n, h)
    /\ Shared(n.rtype) \/ n.holder = h

\* The registrants in S are unregistered; a reservation without holder is
\* released.
Unregister(n, S) ==
    LET m == [n EXCEPT !.reg = [h \in Hosts |-> IF h \in S THEN 0
                                                  ELSE n.reg[h]]]
    IN  IF m.rtype = Reserved THEN m
        ELSE IF Shared(m.rtype)
        THEN IF \E h \in Hosts : m.reg[h] # 0 THEN m ELSE Released(m)
        ELSE IF m.reg[m.holder] # 0 THEN m ELSE Released(m)
WithKey(n, key) == {h \in Hosts : n.reg[h] = key /\ key # 0}
Acquired(n, h, rtype) ==
    [n EXCEPT !.rtype = rtype,
              !.holder = IF Shared(rtype) THEN NoHolder ELSE h]

\* Reservation Register, action REPLACE_KEY ignoring the existing key: the
\* host is registered with the new key.
DevRegister(n, h, new_key) == {[n EXCEPT !.reg[h] = new_key]}

\* Reservation Acquire, action ACQUIRE: the namespaces it can leave; none
\* when the command fails (the host is not registered with current_key, or
\* the reservation is held by another host or with another type).
DevAcquire(n, h, current_key, rtype) ==
    IF ~Registered(n, h) \/ n.reg[h] # current_key THEN {}
    ELSE IF n.rtype = Reserved THEN {Acquired(n, h, rtype)}
    ELSE IF IsHolder(n, h) /\ n.rtype = rtype THEN {n}
    ELSE {}

\* Reservation Acquire, action PREEMPT.  Without a reservation the
\* registrants with preempt_key are unregistered.  With a single holder
\* whose key is preempt_key the holder is replaced; a host preempting
\* itself keeps its registration and changes the type, or, on the devices
\* the code is written for, loses registration and reservation.  With
\* another preempt_key the registrants with that key are unregistered and
\* the reservation stays.  With an all-registrants type, preempt_key 0
\* unregisters every other host and takes the reservation.
DevPreempt(n, h, current_key, preempt_key, rtype) ==
    IF ~Registered(n, h) \/ n.reg[h] # current_key THEN {}
    ELSE IF n.rtype = Reserved
    THEN {Unregister(n, WithKey(n, preempt_key) \ {h}),
          Unregister(n, WithKey(n, preempt_key))}
    ELSE IF Shared(n.rtype)
    THEN IF preempt_key = 0
         THEN {Acquired(Released(Unregister(n, Hosts \ {h})), h, rtype)}
         ELSE {Unregister(n, WithKey(n, preempt_key) \ {h})}
    ELSE IF preempt_key = 0 THEN {}
    ELSE IF n.reg[n.holder] = preempt_key
    THEN IF n.holder = h
         THEN {Acquired(Unregister(n, WithKey(n, preempt_key) \ {h}), h,
                        rtype),
               Unregister(n, WithKey(n, preempt_key))}
         ELSE {Acquired(Released(Unregister(n, WithKey(n, preempt_key) \ {h})),
                        h, rtype)}
    ELSE {Unregister(n, WithKey(n, preempt_key) \ {h})}

\* Reservation Release, action RELEASE: a holder releases the reservation
\* of the type it names; a registrant that holds nothing changes nothing.
DevRelease(n, h, current_key, rtype) ==
    IF ~Registered(n, h) \/ n.reg[h] # current_key THEN {}
    ELSE IF ~IsHolder(n, h) THEN {n}
    ELSE IF n.rtype # rtype THEN {}
    ELSE {Released(n)}

VARIABLES
    \* the report buffer of 4096 bytes ends before the entry of the holder:
    \* the entries the code walks (numctrlr of them) hold no registrant with
    \* status 1
    report_cut

\* resv_holder: the (rtype, rkey, hostid) of a registrant of the report
\* with status 1, None without one. Under an all-registrants type the first
\* entry is a holder already.
NoOwner == [rtype |-> Reserved, rkey |-> 0, hostid |-> NoHolder]
ResvHolders(n) ==
    IF /\ \E h \in Hosts : IsHolder(n, h)
       /\ Shared(n.rtype) \/ ~report_cut
    THEN {[rtype |-> n.rtype, rkey |-> n.reg[h], hostid |-> h] :
             h \in {x \in Hosts : IsHolder(n, x)}}
    ELSE {NoOwner}

ResvCheckHolderOk(n, args, host_id_ok) == {"Ok"}

\* resv_check_holder once the report is read: the results it can return
\* (host_id_ok: whether host_id() succeeds).
ResvCheckHolder(n, args, host_id_ok) ==
    IF args.resv_type # n.rtype /\ ~(Shared(args.resv_type) /\ Shared(n.rtype))
    THEN {"ResvType"}
    ELSE IF Shared(args.resv_type) THEN {"Ok"}
    ELSE IF ResvHolders(n) = {NoOwner} THEN {"ResvNoHolder"}
    ELSE IF ~host_id_ok THEN {"NvmeHostId"}
    ELSE {IF owner.rkey # args.resv_key \/ owner.hostid # my_hostid
          THEN "Holder" ELSE "Ok" : owner \in ResvHolders(n)}

PreemptHolderAcquires(existing, args) == <<"acquire">>

\* reservation_preempt_holder after the report: the verbs still to issue.
PreemptHolderPlan(existing, args) ==
    IF existing = NoOwner THEN <<"acquire">>
    ELSE IF /\ existing.rtype = args.resv_type
            /\ existing.hostid = my_hostid
            /\ existing.rkey = args.resv_key
    THEN <<>>
    ELSE IF ~Shared(existing.rtype)
    THEN IF ~(existing.rtype # args.resv_type /\ existing.hostid = my_hostid)
         THEN <<"preempt", "acquire">>
         ELSE <<"preempt", "register", "acquire">>
    ELSE IF ~Shared(args.resv_type) THEN <<"release", "acquire">>
    ELSE <<>>

\* Whether NotSupported from a verb of the policy functions is turned into
\* Ok: only from the register they start with.
Swallowed(verb, first) == verb = "register" /\ first

\* The ChildError a failed verb of the policy functions is returned as.
VerbError(verb) ==
    CASE verb = "register" -> "ResvRegisterKey"
      [] verb \in {"acquire", "preempt"} -> "ResvAcquire"
      [] verb = "release" -> "ResvRelease"
      [] verb = "report" -> "ResvReport"

VerbResults == {"Ok", "NotSupported", "Err"}

VARIABLES
    \* NEXUS_NVMF_RESV_ENABLE
    resv_env,
    \* the NexusNvmeParams of the call
    params,
    \* the reservation state of the namespace
    ns,
    \* where reservation_acquire stands, and what it returned
    resv_pc, resv_ret,
    \* the holder resv_holder returned and the verbs still to issue
    existing, todo,
    \* the calls made on the handle, with their results, in order
    calls

resvVars ==
    <<resv_env, report_cut, params, ns, resv_pc, resv_ret, existing, todo,
      calls>>

\* No reservation_acquire is observed.
ResvIdle ==
    /\ resv_env = "absent"
    /\ report_cut = FALSE
    /\ params = [enabled |-> FALSE, preempt_policy |-> "ArgKey",
                 resv_type |-> "WriteExclusive", resv_key |-> 1,
                 preempt_key |-> 0]
    /\ ns = [reg |-> [h \in Hosts |-> 0], rtype |-> Reserved,
             holder |-> NoHolder]
    /\ resv_pc = "idle"
    /\ resv_ret = "none"
    /\ existing = NoOwner
    /\ todo = <<>>
    /\ calls = <<>>

Called(verb, res) == Append(calls, [verb |-> verb, res |-> res])

ResvReturn(res) ==
    /\ resv_pc' = "done"
    /\ resv_ret' = res
    /\ todo' = <<>>

\* reservation_acquire is called: the two gates, then get_io_handle of the
\* policy function.
ReservationAcquire(handle_ok) ==
    /\ resv_pc = "idle"
    /\ IF EnvVarIsErr(resv_env) \/ ~params.enabled
       THEN ResvReturn("Ok") /\ UNCHANGED calls
       ELSE IF ~handle_ok
       THEN ResvReturn("HandleOpen") /\ calls' = Called("get_io_handle", "Err")
       ELSE /\ resv_pc' = "register"
            /\ UNCHANGED <<resv_ret, todo, calls>>
    /\ UNCHANGED <<resv_env, report_cut, params, ns, existing>>

\* The register both policy functions start with.
PolicyRegister(res) ==
    /\ resv_pc = "register"
    /\ calls' = Called("register", res)
    /\ IF res = "Ok"
       THEN /\ ns' \in DevRegister(ns, my_hostid, params.resv_key)
            /\ IF params.preempt_policy = "ArgKey"
               THEN /\ resv_pc' = "verbs"
                    /\ todo' = IF params.preempt_key # 0 THEN <<"preempt">>
                               ELSE <<"acquire">>
                    /\ existing' = [NoOwner EXCEPT !.rkey = params.preempt_key]
               ELSE /\ resv_pc' = "resv_holder"
                    /\ UNCHANGED <<todo, existing>>
            /\ UNCHANGED resv_ret
       ELSE /\ IF res = "NotSupported" /\ Swallowed("register", TRUE)
               THEN /\ resv_pc' = "check"
                    /\ UNCHANGED <<resv_ret, todo>>
               ELSE ResvReturn(VerbError("register"))
            /\ UNCHANGED <<ns, existing>>
    /\ UNCHANGED <<resv_env, report_cut, params>>

\* resv_holder in reservation_preempt_holder, with the host_id() and the
\* try_from that follow a report naming a holder.
PolicyResvHolder(dma_ok, res, host_id_ok) ==
    /\ resv_pc = "resv_holder"
    /\ IF ~dma_ok
       THEN /\ ResvReturn("HandleDmaMalloc")
            /\ calls' = Called("dma_malloc", "Err")
            /\ UNCHANGED existing
       ELSE IF res # "Ok"
       THEN /\ ResvReturn(VerbError("report"))
            /\ calls' = Called("report", res)
            /\ UNCHANGED existing
       ELSE \E e \in ResvHolders(ns) :
              IF e # NoOwner /\ ~host_id_ok
              THEN /\ ResvReturn("NvmeHostId")
                   /\ calls' = Append(Called("report", res),
                                      [verb |-> "host_id", res |-> "Err"])
                   /\ UNCHANGED existing
              ELSE /\ existing' = e
                   /\ calls' = Called("report", res)
                   /\ todo' = PreemptHolderPlan(e, params)
                   /\ resv_pc' = IF PreemptHolderPlan(e, params) = <<>>
                                 THEN "check" ELSE "verbs"
                   /\ UNCHANGED resv_ret
    /\ UNCHANGED <<resv_env, report_cut, params, ns>>

\* The effect of a verb of the policy functions on the namespace.
DevVerb(verb) ==
    CASE verb = "register" -> DevRegister(ns, my_hostid, params.resv_key)
      [] verb = "acquire" ->
            DevAcquire(ns, my_hostid, params.resv_key, params.resv_type)
      [] verb = "preempt" ->
            DevPreempt(ns, my_hostid, params.resv_key, existing.rkey,
                       params.resv_type)
      [] verb = "release" ->
            DevRelease(ns, my_hostid, params.resv_key, existing.rtype)

\* The next verb of the policy function: resv_acquire (ACQUIRE, or PREEMPT
\* with a preempt key), the second resv_register, resv_release.
PolicyVerb(res) ==
    /\ resv_pc = "verbs"
    /\ todo # <<>>
    /\ LET verb == Head(todo)
       IN  /\ calls' = Called(verb, res)
           /\ IF res = "Ok"
              THEN /\ ns' \in DevVerb(verb)
                   /\ todo' = Tail(todo)
                   /\ resv_pc' = IF Tail(todo) = <<>> THEN "check" ELSE "verbs"
                   /\ UNCHANGED resv_ret
              ELSE /\ IF res = "NotSupported" /\ Swallowed(verb, FALSE)
                      THEN ResvReturn("Ok")
                      ELSE ResvReturn(VerbError(verb))
                   /\ UNCHANGED ns
    /\ UNCHANGED <<resv_env, report_cut, params, existing>>

\* resv_check_holder, which reservation_acquire returns the result of.
PolicyCheckHolder(handle_ok, dma_ok, res, host_id_ok) ==
    /\ resv_pc = "check"
    /\ IF ~handle_ok
       THEN ResvReturn("HandleOpen") /\ calls' = Called("get_io_handle", "Err")
       ELSE IF ~dma_ok
       THEN ResvReturn("HandleDmaMalloc") /\ calls' = Called("dma_malloc", "Err")
       ELSE IF res = "NotSupported"
       THEN ResvReturn("Ok") /\ calls' = Called("report", res)
       ELSE IF res = "Err"
       THEN ResvReturn(VerbError("report")) /\ calls' = Called("report", res)
       ELSE \E r \in ResvCheckHolder(ns, params, host_id_ok) :
              /\ ResvReturn(r)
              /\ calls' = IF r = "NvmeHostId"
                          THEN Append(Called("report", res),
                                      [verb |-> "host_id", res |-> "Err"])
                          ELSE Called("report", res)
    /\ UNCHANGED <<resv_env, report_cut, params, ns, existing>>

(***************************************************************************)
(* NexusChild: the I/O log.                                                *)
(***************************************************************************)
VARIABLES
    \* whether the child has an I/O log (io_log is Some)
    io_log,
    \* the process-wide switch ENABLE_PARTIAL_REBUILD
    enable_partial_rebuild

logVars == <<io_log, enable_partial_rebuild>>

\* NexusChild::new: no I/O log; the switch is left off where no log
\* operation is observed.
LogIdle ==
    /\ io_log = FALSE
    /\ enable_partial_rebuild = FALSE

\* NexusChild::start_io_log
StartIoLog ==
    /\ IF ~enable_partial_rebuild
       THEN /\ ret' = Ret("start_io_log", "false")
            /\ UNCHANGED <<io_log, child_abort>>
       ELSE IF sync_state = "OutOfSync"
       THEN \* assert!(self.io_log.lock().is_none())
            /\ child_abort' = IF io_log THEN "io_log_assert" ELSE "no"
            /\ ret' = IF io_log THEN ret ELSE Ret("start_io_log", "false")
            /\ UNCHANGED io_log
       ELSE /\ io_log' = (io_log \/ device)
            /\ ret' = Ret("start_io_log",
                          IF io_log \/ device THEN "true" ELSE "false")
            /\ UNCHANGED child_abort
    /\ UNCHANGED <<state, sync_state, destroy_state, faulted_at,
                   remove_channel, device, device_descriptor, claimed, sends,
                   stale_events, cpc, cres, cev, creason, opc, dd_calls,
                   enable_partial_rebuild>>

\* NexusChild::stop_io_log: the log is taken and finalized into a map.
StopIoLog ==
    /\ io_log' = FALSE
    /\ ret' = Ret("stop_io_log", IF io_log THEN "Some" ELSE "None")
    /\ UNCHANGED <<state, sync_state, destroy_state, faulted_at,
                   remove_channel, device, device_descriptor, claimed, sends,
                   stale_events, cpc, cres, cev, creason, opc, child_abort,
                   dd_calls, enable_partial_rebuild>>

\* NexusChild::set_sync_state
SetSyncState(s) ==
    /\ sync_state' = s
    /\ ret' = Ret("set_sync_state", "Ok")
    /\ UNCHANGED <<state, destroy_state, faulted_at, remove_channel, device,
                   device_descriptor, claimed, sends, stale_events, cpc, cres,
                   cev, creason, opc, child_abort, dd_calls, io_log,
                   enable_partial_rebuild>>

vars ==
    <<childVars, rebuildVars, clientVars, unplugVars, resvVars, logVars>>

Idle == [st |-> "idle", blk |-> 0]

\* RebuildJobBackend::new, then schedule()
RebuildInit ==
    /\ rpc = "reconcile"
    /\ mt = "top"
    /\ current = "Init"
    /\ pending = "None"
    /\ error = NoError
    /\ \E r \in Ranges : range_start = r[1] /\ range_end = r[2]
    /\ next = range_start
    /\ active = 0
    /\ segments_done = 0
    /\ segments_transferred = 0
    /\ tasks = [i \in TaskIds |-> Idle]
    /\ tchan = <<>>
    /\ map_set = FALSE
    /\ dirty = {}
    /\ info_chan = <<>>
    /\ frontend_senders = 1
    /\ io_errors = 0
    /\ task_failed = FALSE
    /\ first_error = NoError
    /\ notify_fn = 0
    /\ notify_chan = <<>>
    /\ oneshot = "none"

(***************************************************************************)
(* RebuildJobBackend: statistics.                                          *)
(***************************************************************************)
BlocksTotal == range_end - range_start

\* stats(): blocks_recovered, without the clamp and with it.
BlocksRecoveredUnclamped(done) == done * SegmentSizeBlks
BlocksRecovered(done) == Min(done * SegmentSizeBlks, BlocksTotal)

\* stats(): blocks_transferred
BlocksTransferred(transferred) ==
    Min(transferred * SegmentSizeBlks, BlocksTotal)

\* RebuildMap::count_dirty_blks: the blocks of the dirty segments.
CountDirtyBlks(d) ==
    LET RECURSIVE Sum(_)
        Sum(S) == IF S = {} THEN 0
                  ELSE LET b == CHOOSE x \in S : TRUE
                       IN  Min(SegmentSizeBlks, range_end - b) + Sum(S \ {b})
    IN  Sum(d)

\* stats(): blocks_remaining
BlocksRemaining(done, ms, d) ==
    IF ms THEN CountDirtyBlks(d) ELSE BlocksTotal - BlocksRecovered(done)

\* stats() aborts: the division by blocks_total, or the assertion
\* progress < 100 || blocks_remaining == 0.
StatsPanics(done, ms, d) ==
    \/ BlocksTotal = 0
    \/ /\ BlocksTotal > 0
       /\ ~((BlocksRecovered(done) * 100) \div BlocksTotal < 100
             \/ BlocksRemaining(done, ms, d) = 0)

(***************************************************************************)
(* RebuildStates (rebuild_state.rs) and the frontend handle.               *)
(***************************************************************************)
\* RebuildStates::reconcile: the pending state, if any, becomes current.
Reconciled(cur, pend) == IF pend = "None" THEN cur ELSE pend

\* exec_op(op, false): the state a client operation asks for.
ClientTarget(op) ==
    CASE op = "Start" -> "Running"
      [] op = "Pause" -> "Paused"
      [] op = "Resume" -> "Running"
      [] op = "Stop" -> "Stopped"

\* exec_op(op, false): the operation is valid in the current state and does
\* not override another pending state.
ClientAccepted(op) ==
    /\ CASE op = "Start" -> current = "Init"
         [] op = "Pause" -> current = "Running"
         [] op = "Resume" -> current = "Paused"
         [] op = "Stop" -> ~Done(current)
    /\ pending \in {"None", ClientTarget(op)}

Msg(t, m) == [t |-> t, m |-> m]

\* A client operation of the frontend: exec_op, then a WakeUp request.
ClientOp(op) ==
    /\ frontend_senders > 0
    /\ Len(info_chan) < MaxInfo
    /\ ClientAccepted(op)
    /\ pending' = ClientTarget(op)
    /\ info_chan' = Append(info_chan, Msg("WakeUp", {}))
    /\ UNCHANGED <<notify_fn, notify_chan, oneshot>>
    /\ UNCHANGED <<rpc, mt, current, error, range_start, range_end, next,
                   active, segments_done, segments_transferred, tasks, tchan,
                   map_set, dirty, frontend_senders, io_errors, task_failed,
                   first_error>>

\* The frontend asks for the statistics.
ClientGetStats ==
    /\ frontend_senders > 0
    /\ Len(info_chan) < MaxInfo
    /\ info_chan' = Append(info_chan, Msg("GetStats", {}))
    /\ UNCHANGED <<notify_fn, notify_chan, oneshot>>
    /\ UNCHANGED <<rpc, mt, current, pending, error, range_start, range_end,
                   next, active, segments_done, segments_transferred, tasks,
                   tchan, map_set, dirty, frontend_senders, io_errors,
                   task_failed, first_error>>

\* The maps a frontend installs: an empty one, and one with the second
\* segment of the range dirty.
MapChoices == {{}, {range_start + SegmentSizeBlks} \cap (0 .. range_end - 1)}

\* The frontend sends a rebuild map.
ClientSetRebuildMap(m) ==
    /\ frontend_senders > 0
    /\ Len(info_chan) < MaxInfo
    /\ info_chan' = Append(info_chan, Msg("SetRebuildMap", m))
    /\ UNCHANGED <<notify_fn, notify_chan, oneshot>>
    /\ UNCHANGED <<rpc, mt, current, pending, error, range_start, range_end,
                   next, active, segments_done, segments_transferred, tasks,
                   tchan, map_set, dirty, frontend_senders, io_errors,
                   task_failed, first_error>>

\* The frontend handle is dropped, and its sender with it.
FrontendDrop ==
    /\ frontend_senders > 0
    /\ frontend_senders' = frontend_senders - 1
    /\ UNCHANGED <<notify_fn, notify_chan, oneshot>>
    /\ UNCHANGED <<rpc, mt, current, pending, error, range_start, range_end,
                   next, active, segments_done, segments_transferred, tasks,
                   tchan, map_set, dirty, info_chan, io_errors, task_failed,
                   first_error>>


(***************************************************************************)
(* RebuildJobBackend: the run loop.                                        *)
(***************************************************************************)
\* The sender the backend itself holds in info_chan (RebuildFBendChan.sender).
BackendSenders == 1

\* async_channel: the channel is closed once no sender is left.
InfoChanClosed == frontend_senders + BackendSenders = 0

\* manage_tasks(): the pending states in which a finished task's slot is
\* given the next segment.
DispatchesAlways(pend) == TRUE
DispatchesOn(pend) == pend \in {"None", "Running"}

NextAfterSame(n) == n

\* send_segment_task(): the next segment offset after dispatching at n.
NextAfter(n) == Min(n + SegmentSizeBlks, range_end)

\* fail_with(e): fail() overrides the pending state, then the error is stored.
FailWith(e) ==
    /\ pending' = "Failed"
    /\ error' = e
    /\ first_error' = IF first_error = NoError THEN e ELSE first_error

MapAfterReplaced(ms, d, m) == m

\* set_rebuild_map: the stored map after a request carrying m, given whether
\* a map is stored already (ms) and the stored one (d).
MapAfter(ms, d, m) == IF ms THEN d ELSE m

\* reply_stats / set_rebuild_map for one request: whether stats() aborts, and
\* the rebuild map afterwards.
RequestPanics(msg) ==
    msg.t = "GetStats" /\ StatsPanics(segments_done, map_set, dirty)

HandleRequest(msg) ==
    /\ map_set' = (map_set \/ msg.t = "SetRebuildMap")
    /\ dirty' = IF msg.t = "SetRebuildMap"
              THEN MapAfter(map_set, dirty, msg.m)
              ELSE dirty
    /\ oneshot' = IF msg.t = "SetRebuildMap" THEN "ack"
                  ELSE IF msg.t = "GetStats" /\ ~RequestPanics(msg) THEN "stats"
                  ELSE "none"

\* run(): while !self.reconcile().done(), up to the branch on running().
BackendReconcile ==
    /\ rpc = "reconcile"
    /\ LET new == Reconciled(current, pending)
           \* send_notify() runs when the state changed and stats() returned
           sent == new # current /\ ~StatsPanics(segments_done, map_set, dirty)
       IN  /\ current' = new
           /\ pending' = "None"
           /\ notify_fn' = IF sent THEN 1 ELSE 0
           /\ notify_chan' = IF sent THEN <<new>> ELSE <<>>
           /\ rpc' = IF new # current /\ StatsPanics(segments_done, map_set, dirty)
                     THEN "panic"
                     ELSE IF Done(new) THEN "exit"
                     ELSE IF new # "Running" THEN "recv"
                     ELSE "start"
    /\ UNCHANGED <<oneshot>>
    /\ UNCHANGED <<mt, error, range_start, range_end, next, active,
                   segments_done, segments_transferred, tasks, tchan, map_set,
                   dirty, info_chan, frontend_senders, io_errors, task_failed,
                   first_error>>

\* start_all_tasks(): the task slots that get a segment.
Started == {i \in TaskIds : next + i * SegmentSizeBlks < range_end}

\* run(): start_all_tasks(), up to the first await of the inner loop.
BackendStartAllTasks ==
    /\ rpc = "start"
    /\ IF active # 0
       THEN \* assert_eq!(self.task_pool.active, 0)
            /\ rpc' = "active_assert"
            /\ UNCHANGED <<mt, pending, next, active, tasks>>
       ELSE /\ tasks' = [i \in TaskIds |->
                           IF i \in Started
                           THEN [st |-> "busy", blk |-> next + i * SegmentSizeBlks]
                           ELSE tasks[i]]
            /\ next' = IF Started = {} THEN next
                       ELSE Min(next + Cardinality(Started) * SegmentSizeBlks,
                                range_end)
            /\ active' = Cardinality(Started)
            /\ pending' = IF Started = {} THEN "Completed" ELSE pending
            /\ mt' = "top"
            /\ rpc' = IF StatsPanics(segments_done, map_set, dirty) THEN "panic"
                      ELSE IF Started = {} THEN "reconcile"
                      ELSE "select"
    /\ UNCHANGED <<notify_fn, notify_chan, oneshot>>
    /\ UNCHANGED <<current, error, range_start, range_end, segments_done,
                   segments_transferred, tchan, map_set, dirty, info_chan,
                   frontend_senders, io_errors, task_failed, first_error>>

\* run(): info_chan.recv() returns while the job is not running.
BackendRecv ==
    /\ rpc = "recv"
    /\ info_chan # <<>> \/ InfoChanClosed
    /\ IF info_chan # <<>>
       THEN /\ info_chan' = Tail(info_chan)
            /\ HandleRequest(Head(info_chan))
            /\ rpc' = IF RequestPanics(Head(info_chan)) THEN "panic"
                      ELSE "reconcile"
            /\ UNCHANGED <<pending, error, first_error>>
       ELSE /\ FailWith(FrontendGone)
            /\ rpc' = "reconcile"
            /\ UNCHANGED <<info_chan, map_set, dirty, oneshot>>
    /\ UNCHANGED <<notify_fn, notify_chan>>
    /\ UNCHANGED <<mt, current, range_start, range_end, next, active,
                   segments_done, segments_transferred, tasks, tchan,
                   frontend_senders, io_errors, task_failed>>

\* run(): the request branch of select!. It is taken when a request is ready
\* and manage_tasks() has not been polled or is pending on an empty task
\* channel; the manage_tasks future is dropped.
BackendSelectRequest ==
    /\ rpc = "select"
    /\ mt = "top" \/ tchan = <<>>
    /\ info_chan # <<>> \/ InfoChanClosed
    /\ mt' = "top"
    /\ IF info_chan # <<>>
       THEN /\ info_chan' = Tail(info_chan)
            /\ HandleRequest(Head(info_chan))
            /\ rpc' = IF RequestPanics(Head(info_chan)) THEN "panic"
                      ELSE "select"
            /\ UNCHANGED <<pending, error, first_error>>
       ELSE /\ FailWith(FrontendGone)
            /\ rpc' = "drain"
            /\ UNCHANGED <<info_chan, map_set, dirty, oneshot>>
    /\ UNCHANGED <<notify_fn, notify_chan>>
    /\ UNCHANGED <<current, range_start, range_end, next, active,
                   segments_done, segments_transferred, tasks, tchan,
                   frontend_senders, io_errors, task_failed>>

\* manage_tasks() / await_all_tasks(): await_one_task() returns a result.
BackendTaskResult ==
    /\ rpc \in {"select", "drain"}
    /\ tchan # <<>>
    /\ LET r == Head(tchan)
           left == active - 1
           redispatch == mt = "top" /\ ~r.err /\ DispatchesOn(pending)
                         /\ next < range_end
       IN  /\ tchan' = Tail(tchan)
           /\ active' = IF redispatch THEN left + 1 ELSE left
           /\ tasks' = [tasks EXCEPT
                          ![r.id] = IF redispatch
                                    THEN [st |-> "busy", blk |-> next]
                                    ELSE Idle]
           /\ next' = IF redispatch THEN NextAfter(next) ELSE next
           /\ IF mt = "top" /\ r.err
              THEN FailWith(IoErr(r.blk))
              ELSE /\ pending' = IF mt = "top" /\ DispatchesOn(pending)
                                    /\ ~redispatch /\ left = 0
                                 THEN "Completed"
                                 ELSE pending
                   /\ UNCHANGED <<error, first_error>>
           /\ mt' = IF active' = 0 THEN "top"
                    ELSE IF mt = "top" /\ ~r.err /\ DispatchesOn(pending)
                    THEN "top"
                    ELSE "await_all"
           /\ rpc' = IF active' = 0 THEN "reconcile" ELSE rpc
    /\ UNCHANGED <<notify_fn, notify_chan, oneshot>>
    /\ UNCHANGED <<current, range_start, range_end, segments_done,
                   segments_transferred, map_set, dirty, info_chan,
                   frontend_senders, io_errors, task_failed>>

\* Drop for RebuildJobBackend: the final stats() after run() has returned.
BackendDrop ==
    /\ rpc = "exit"
    /\ rpc' = IF StatsPanics(segments_done, map_set, dirty) THEN "panic"
              ELSE "dropped"
    /\ UNCHANGED <<notify_fn, notify_chan, oneshot>>
    /\ UNCHANGED <<mt, current, pending, error, range_start, range_end, next,
                   active, segments_done, segments_transferred, tasks, tchan,
                   map_set, dirty, info_chan, frontend_senders, io_errors,
                   task_failed, first_error>>

(***************************************************************************)
(* RebuildTasks (rebuild_task.rs): one segment copy.                       *)
(***************************************************************************)
\* The task in slot id finishes its segment and posts the result: a clean
\* segment of an installed map is skipped, any other is copied and the copy
\* succeeds or fails.
TaskFinish(id, err) ==
    /\ tasks[id].st = "busy"
    /\ LET blk == tasks[id].blk
           clean == map_set /\ blk \notin dirty
       IN  /\ err => ~clean /\ io_errors < MaxErrors
           /\ tchan' = Append(tchan, [id |-> id, blk |-> blk, err |-> err])
           /\ tasks' = [tasks EXCEPT ![id] = [st |-> "posted", blk |-> blk]]
           /\ segments_done' = IF err THEN segments_done ELSE segments_done + 1
           /\ segments_transferred' = IF err \/ clean THEN segments_transferred
                                      ELSE segments_transferred + 1
           /\ dirty' = IF err THEN dirty ELSE dirty \ {blk}
           /\ io_errors' = IF err THEN io_errors + 1 ELSE io_errors
           /\ task_failed' = (task_failed \/ err)
    /\ UNCHANGED <<notify_fn, notify_chan, oneshot>>
    /\ UNCHANGED <<rpc, mt, current, pending, error, range_start, range_end,
                   next, active, map_set, info_chan, frontend_senders,
                   first_error>>

(***************************************************************************)
(* Specifications.                                                         *)
(***************************************************************************)
\* A step of the child: nothing runs after an abort; the rebuild job is
\* untouched.
ChildAct(A) ==
    /\ child_abort = "no"
    /\ A
    /\ was_perm' = (was_perm \/ IsPermFaulted(state'))
    /\ UNCHANGED <<rebuildVars, clientVars, unplugVars, resvVars, logVars>>

ChildNext ==
    \/ \E ps \in ParentSizes, s \in SyncStates : ChildAct(Open(ps, s))
    \/ \E r \in InputReasons : ChildAct(SetFaultedState(r))
    \/ ChildAct(OnlineCall)
    \/ \E ps \in ParentSizes, created, found, open_ok \in BOOLEAN :
          ChildAct(OnlineCreated(ps, created, found, open_ok))
    \/ \E c \in Closers, r \in InputReasons \cup {"NoReason"},
          ok \in BOOLEAN : ChildAct(CloseCall(c, r, ok))
    \/ \E c \in Closers : ChildAct(DeviceDestroyReturn(c))
    \/ \E c \in Closers : ChildAct(CloseRecv(c))
    \/ \E c \in Closers : ChildAct(Unplug(c))
    \/ ChildAct(UnplugLate)
    \/ ChildAct(HotRemove)
    \/ ChildAct(UnplugCompleteSend)

\* A step of the rebuild job: the child is untouched.
RebuildAct(A) ==
    A /\ UNCHANGED <<childVars, clientVars, unplugVars, resvVars, logVars>>

RebuildNext ==
    \/ \E op \in {"Start", "Pause", "Resume", "Stop"} : RebuildAct(ClientOp(op))
    \/ RebuildAct(ClientGetStats)
    \/ \E m \in MapChoices : RebuildAct(ClientSetRebuildMap(m))
    \/ RebuildAct(FrontendDrop)
    \/ RebuildAct(BackendReconcile)
    \/ RebuildAct(BackendStartAllTasks)
    \/ RebuildAct(BackendRecv)
    \/ RebuildAct(BackendSelectRequest)
    \/ RebuildAct(BackendTaskResult)
    \/ RebuildAct(BackendDrop)
    \/ \E id \in TaskIds, err \in BOOLEAN : RebuildAct(TaskFinish(id, err))

\* The child alone: the rebuild job stays as constructed.
InitChild ==
    /\ ChildInit /\ RebuildInit /\ range_start = 0
    /\ ClientIdle /\ UnplugIdle /\ ResvIdle /\ LogIdle
SpecChild == InitChild /\ [][ChildNext]_vars

\* The rebuild job alone: the child stays as constructed.
InitRebuild ==
    /\ ChildInit /\ device = TRUE /\ RebuildInit
    /\ ClientIdle /\ UnplugIdle /\ ResvIdle /\ LogIdle
SpecRebuild == InitRebuild /\ [][RebuildNext]_vars

\* The rebuild job under the scheduling of the reactor: a step of the
\* backend that can run does run, and a dispatched segment task finishes.
SpecRebuildLive ==
    /\ SpecRebuild
    /\ WF_vars(RebuildAct(BackendReconcile))
    /\ WF_vars(RebuildAct(BackendStartAllTasks))
    /\ WF_vars(RebuildAct(BackendRecv))
    /\ WF_vars(RebuildAct(BackendSelectRequest))
    /\ WF_vars(RebuildAct(BackendTaskResult))
    /\ WF_vars(RebuildAct(BackendDrop))
    /\ WF_vars(\E id \in TaskIds, err \in BOOLEAN :
                  RebuildAct(TaskFinish(id, err)))

\* The child under the scheduling of the reactor and of the device layer:
\* device_destroy returns, a close() whose recv() has a signal returns, the
\* spawned unplug_complete send runs, and the removal event of a destroy is
\* delivered to unplug() when the child owns a descriptor (its claim and
\* event listener).
SpecChildLive ==
    /\ SpecChild
    /\ \A c \in Closers :
          /\ WF_vars(ChildAct(DeviceDestroyReturn(c)))
          /\ WF_vars(ChildAct(CloseRecv(c)))
          /\ WF_vars(ChildAct(device_descriptor /\ Unplug(c)))
    /\ WF_vars(ChildAct(UnplugCompleteSend))

\* state_client() alone, on every input a child can present; child and
\* rebuild job stay as constructed.
InitStateClient ==
    /\ ChildInit /\ device = TRUE
    /\ RebuildInit /\ range_start = 0
    /\ sc_arg \in StateClientArgs
    /\ sc_ret = NotCalled
    /\ UnplugIdle /\ ResvIdle /\ LogIdle
StateClientNext ==
    /\ StateClientCall
    /\ UNCHANGED <<childVars, rebuildVars, unplugVars, resvVars, logVars>>
SpecStateClient == InitStateClient /\ [][StateClientNext]_vars

\* One call of unplug() alone, entered on every child a removal event can
\* find; the fields unplug() neither reads nor writes, the rebuild job and
\* the client stay as constructed.
unplugFrame ==
    <<sync_state, faulted_at, destroy_state, stale_events, cpc, cres, cev,
      creason, opc, child_abort, ret, dd_calls, was_perm>>
InitUnplug ==
    /\ UnplugEntryState
    /\ faulted_at = FALSE /\ stale_events = 0
    /\ cpc = [c \in Closers |-> "idle"] /\ cres = [c \in Closers |-> "none"]
    /\ cev = [c \in Closers |-> "none"]
    /\ creason = [c \in Closers |-> "NoReason"]
    /\ opc = "idle" /\ child_abort = "no"
    /\ ret = Ret("new", "Ok")
    /\ dd_calls = 0 /\ was_perm = IsPermFaulted(state)
    /\ RebuildInit /\ range_start = 0
    /\ ClientIdle
    /\ unplug_pc = "idle"
    /\ unplug_state = Plain("Init")
    /\ is_destroying = FALSE
    /\ nexus_found \in BOOLEAN
    /\ unplug_log = <<>>
    /\ ResvIdle /\ LogIdle
UnplugAct(A) ==
    A /\ UNCHANGED <<unplugFrame, rebuildVars, clientVars, resvVars,
                     logVars>>
UnplugNext ==
    \/ UnplugAct(UnplugEnter)
    \/ UnplugAct(UnplugDevice)
    \/ UnplugAct(UnplugSetState)
    \/ UnplugAct(UnplugReconfigure)
    \/ UnplugAct(UnplugReconfigured)
    \/ UnplugAct(UnplugDescriptor)
    \/ UnplugAct(UnplugComplete)
    \/ UnplugAct(UnplugSend)
SpecUnplug == InitUnplug /\ [][UnplugNext]_vars


\* One reservation_acquire alone, for every setting of the environment
\* variable, every NexusNvmeParams and every reservation state of the
\* namespace in which this host is registered with some key or not at all;
\* the child, the rebuild job and the client stay as constructed.
InitResv ==
    /\ ChildInit /\ device = TRUE
    /\ RebuildInit /\ range_start = 0
    /\ ClientIdle /\ UnplugIdle /\ LogIdle
    /\ resv_env \in EnvValues
    /\ report_cut \in BOOLEAN
    /\ params \in NvmeParams
    /\ ns \in Namespaces
    /\ resv_pc = "idle"
    /\ resv_ret = "none"
    /\ existing = NoOwner
    /\ todo = <<>>
    /\ calls = <<>>
ResvAct(A) ==
    A /\ UNCHANGED <<childVars, rebuildVars, clientVars, unplugVars,
                     logVars>>
ResvNext ==
    \/ \E handle_ok \in BOOLEAN : ResvAct(ReservationAcquire(handle_ok))
    \/ \E res \in VerbResults : ResvAct(PolicyRegister(res))
    \/ \E dma_ok, host_id_ok \in BOOLEAN, res \in VerbResults :
          ResvAct(PolicyResvHolder(dma_ok, res, host_id_ok))
    \/ \E res \in VerbResults : ResvAct(PolicyVerb(res))
    \/ \E handle_ok, dma_ok, host_id_ok \in BOOLEAN, res \in VerbResults :
          ResvAct(PolicyCheckHolder(handle_ok, dma_ok, res, host_id_ok))
SpecResv == InitResv /\ [][ResvNext]_vars

\* The child with its I/O log: open, online, close and unplug, the log
\* operations and set_sync_state, with the switch on or off; the rebuild
\* job and the rest stay as constructed.
InitIoLog ==
    /\ ChildInit /\ RebuildInit /\ range_start = 0
    /\ ClientIdle /\ UnplugIdle /\ ResvIdle
    /\ io_log = FALSE
    /\ enable_partial_rebuild \in BOOLEAN
IoLogAct(A) ==
    /\ child_abort = "no"
    /\ A
    /\ was_perm' = was_perm
    /\ UNCHANGED <<rebuildVars, clientVars, unplugVars, resvVars>>
IoLogNext ==
    \/ \E ps \in ParentSizes, s \in SyncStates : ChildAct(Open(ps, s))
    \/ ChildAct(OnlineCall)
    \/ \E ps \in ParentSizes, created, found, open_ok \in BOOLEAN :
          ChildAct(OnlineCreated(ps, created, found, open_ok))
    \/ \E c \in Closers, ok \in BOOLEAN : ChildAct(CloseCall(c, "NoReason", ok))
    \/ \E c \in Closers : ChildAct(DeviceDestroyReturn(c))
    \/ \E c \in Closers : ChildAct(CloseRecv(c))
    \/ \E c \in Closers : ChildAct(Unplug(c))
    \/ ChildAct(UnplugLate)
    \/ ChildAct(HotRemove)
    \/ ChildAct(UnplugCompleteSend)
    \/ IoLogAct(StartIoLog)
    \/ IoLogAct(StopIoLog)
    \/ \E s \in SyncStates : IoLogAct(SetSyncState(s))
SpecIoLog == InitIoLog /\ [][IoLogNext]_vars

(***************************************************************************)
(* Properties of the child.                                                *)
(***************************************************************************)
InChoreography(c) == cpc[c] # "idle"

\* C1: in every reachable state an Open child has both its device and its
\* device descriptor, and the assertions of open()'s already-Open branch
\* never fail.
C1_OpenHasDeviceAndDescriptor ==
    /\ state.k = "Open" => device /\ device_descriptor
    /\ child_abort # "open_assert"

\* An Open child that was onlined again after a close whose removal event
\* was delivered late.
C1_Witness ==
    /\ state.k = "Open" /\ device /\ device_descriptor
    /\ ret = Ret("online", "Ok")
    /\ stale_events > 0

\* C5: a close() that won the None->Destroying transition returns Ok only
\* after the unplug() raised by its device_destroy has run (device and
\* descriptor dropped) and signalled unplug_complete.
C5_CloseReturnsAfterUnplug ==
    [][\A c \in Closers :
          (cpc[c] \in {"destroy", "wait"} /\ cpc'[c] = "idle"
             /\ ret'.res = "Ok")
          => (cev[c] = "delivered" /\ ~device' /\ ~device_descriptor')]_vars

\* C6: while one close() holds Destroying, a concurrent close() returns Ok
\* without unclaiming, without device_destroy, without waiting and without
\* changing destroy_state; device_destroy is called at most once per
\* Destroying period and at most one caller is in the choreography.
C6_SingleDestroyChoreography ==
    [][/\ IsDestroying
             => \A c \in Closers, r \in InputReasons \cup {"NoReason"},
                   ok \in BOOLEAN :
                   CloseCall(c, r, ok)
                   => /\ ret'.res = "OkAlreadyClosing"
                      /\ UNCHANGED <<destroy_state, claimed, device,
                                     device_descriptor, remove_channel, sends,
                                     cpc, cres, cev, dd_calls>>
       /\ dd_calls' <= 1
       /\ Cardinality({c \in Closers : InChoreography(c)}') <= 1]_vars

\* A second close() has returned while the first waits on remove_channel.
C6_Witness ==
    /\ IsDestroying
    /\ ret.res = "OkAlreadyClosing"
    /\ \E c \in Closers : cpc[c] = "wait"

C8_ClosedKeepsDescriptorOnlyOnHotRemove ==
    [][(state'.k = "Closed" /\ device_descriptor')
          => \/ state.k = "Closed" /\ device_descriptor
             \/ state.k = "Open" /\ ~IsDestroying]_vars

\* A close() has returned Ok with the child Closed and nothing left.
C8_Witness ==
    /\ state.k = "Closed" /\ ~device_descriptor /\ ~device
    /\ ret = Ret("close", "Ok")

\* C8 as stated: a Closed child never holds a descriptor.
C8_ClosedHasNoDescriptor == state.k = "Closed" => ~device_descriptor

(***************************************************************************)
(* Properties of the rebuild job.                                          *)
(***************************************************************************)
Ended == rpc \in {"exit", "dropped"}

\* C2: reconcile() promotes the job to a state other than Running only
\* with no task active; while a pending state other than Running is set in
\* the inner loop no segment is dispatched and the pending state stays
\* other than Running until it is reconciled; while await_all_tasks drains
\* the pool nothing is dispatched; the assertion of start_all_tasks never
\* fails.
C2_AtRestNoTaskInFlight ==
    [][/\ (rpc = "reconcile" /\ Reconciled(current, pending) # "Running")
             => active = 0
       /\ (rpc \in {"select", "drain"} /\ pending \notin {"None", "Running"})
             => /\ next' = next
                /\ active' <= active
                /\ pending' \notin {"None", "Running"}
       /\ mt = "await_all" => next' = next /\ active' <= active
       /\ rpc' # "active_assert"]_vars

\* A job paused in the middle of its range, at rest.
C2_Witness ==
    /\ current = "Paused"
    /\ rpc = "recv"
    /\ active = 0
    /\ next > range_start
    /\ next < range_end

\* C3: a job in which a segment task reported an I/O error ends Failed with
\* an I/O error recorded, and never Completed.
C3_TaskErrorFailsJob ==
    (Ended /\ task_failed) => (current = "Failed" /\ error.kind = "Io")

\* C4: a job that ends Completed has recovered every block of its range, or
\* has a rebuild map installed and no block remaining.
C4_CompletedMeansRecovered ==
    (Ended /\ current = "Completed")
    => \/ BlocksRecovered(segments_done) = BlocksTotal
       \/ map_set /\ BlocksRemaining(segments_done, map_set, dirty) = 0

\* C9: the statistics stay in range, 0 <= blocks_recovered <= B and
\* 0 <= blocks_transferred <= blocks_recovered, and segments_done and
\* blocks_recovered never decrease.
C9_StatsInRangeAndMonotone ==
    [][/\ 0 <= BlocksRecovered(segments_done)
       /\ BlocksRecovered(segments_done) <= BlocksTotal
       /\ 0 <= BlocksTransferred(segments_transferred)
       /\ BlocksTransferred(segments_transferred)
             <= BlocksRecovered(segments_done)
       /\ BlocksRecovered(segments_done') <= BlocksTotal
       /\ BlocksTransferred(segments_transferred')
             <= BlocksRecovered(segments_done')
       /\ segments_done' >= segments_done
       /\ BlocksRecovered(segments_done') >= BlocksRecovered(segments_done)]_vars

\* A job over a range that is not a multiple of the segment size, with every
\* segment done: the clamp of blocks_recovered acts.
C9_Witness ==
    /\ BlocksTotal > 0
    /\ segments_done * SegmentSizeBlks > BlocksTotal
    /\ segments_transferred > 0
    /\ current = "Completed"

\* C10: the error stored by the first fail_with of a job is never replaced.
C10_FirstErrorRetained == first_error # NoError => error = first_error

\* The backend aborted: stats() or the assertion of start_all_tasks.
Aborted == rpc \in {"panic", "active_assert"}

\* A client Stop is pending on a job that is Running or Paused.
StopPending == pending = "Stopped" /\ current \in {"Running", "Paused"}

\* C11 (amended): after a client Stop on a Running or Paused job the run
\* loop eventually exits with no task active, in Stopped unless a task error
\* (Failed) or the completion of the job (Completed) has overridden the
\* pending Stop, or the backend aborts; while the Stop is pending in the
\* inner loop no segment is dispatched.
C11_StopEndsJob ==
    /\ StopPending
          ~> \/ /\ Ended
                /\ active = 0
                /\ current \in {"Stopped", "Failed", "Completed"}
             \/ Aborted
    /\ [][(StopPending /\ rpc \in {"select", "drain"})
             => next' = next /\ active' <= active]_vars
    /\ [][(StopPending /\ pending' # "Stopped")
             => \/ pending' = "None" /\ current' = "Stopped"
                \/ pending' \in {"Failed", "Completed"}]_vars

\* A job stopped in the middle of its range, its run loop ended.
C11_Witness ==
    /\ Ended
    /\ current = "Stopped"
    /\ active = 0
    /\ segments_done > 0
    /\ next < range_end

\* C11 as stated: after a client Stop the job eventually ends in Stopped.
C11_StopReachesStopped ==
    StopPending ~> (Ended /\ current = "Stopped" /\ active = 0)

\* C12: once every frontend handle is dropped, a backend waiting on the
\* request channel with nothing queued observes FrontendGone and the job
\* ends Failed with that error; a backend in the inner loop drains its tasks
\* and its run loop ends.
C12_FrontendGoneFailsJob ==
    /\ (frontend_senders = 0 /\ info_chan = <<>> /\ pending = "None"
          /\ rpc = "recv")
          ~> (Ended /\ current = "Failed" /\ error = FrontendGone)
    /\ (frontend_senders = 0 /\ rpc = "select")
          ~> ((Ended /\ active = 0) \/ Aborted)

\* C13: a job over an empty range dispatches no segment, no stats()
\* evaluation aborts, and the reconcile that follows Running makes it
\* Completed.
C13_EmptyRangeCompletes ==
    [][BlocksTotal = 0
         => /\ ~Aborted'
            /\ active' = 0 /\ next' = next
            /\ (current = "Running" /\ current' # current)
                  => current' = "Completed"]_vars

(***************************************************************************)
(* Properties of the child: close / online / open contracts.               *)
(***************************************************************************)
\* C14: an Open child has no online() in flight and none can start while
\* the child is being destroyed; the removal event of a close() delivered
\* to an Open child makes it Closed with device and descriptor dropped;
\* nothing brings them back before that close() returns, and it returns Ok
\* with destroy_state None, no device, no descriptor and the state as
\* unplug() left it; online(parent_size) of a Closed child with
\* parent_size <= the device size, whose device is re-created and opens,
\* ends Open with device and descriptor present and sync_state OutOfSync
\* whatever sync_state was before.
C14_CloseOnlineCycle ==
    [][/\ state.k = "Open" => opc = "idle"
       /\ (IsDestroying /\ opc = "idle" /\ IsDestroying') => opc' = "idle"
       /\ \A c \in Closers :
             (cev[c] = "raised" /\ cev'[c] = "delivered" /\ state.k = "Open")
             => (state' = Plain("Closed") /\ ~device' /\ ~device_descriptor')
       /\ (IsDestroying /\ opc = "idle" /\ ~device /\ ~device_descriptor)
             => (~device' /\ ~device_descriptor')
       /\ \A c \in Closers :
             (cpc[c] = "wait" /\ cpc'[c] = "idle" /\ cev[c] = "delivered"
                /\ creason[c] = "NoReason" /\ opc = "idle")
             => /\ ret' = Ret("close", "Ok")
                /\ destroy_state' = "None"
                /\ state' = state
       /\ \A ps \in {p \in ParentSizes : p <= ChildSize} :
             (state.k = "Closed" /\ ~IsDestroying
                /\ OnlineCreated(ps, TRUE, TRUE, TRUE))
             => /\ ret' = Ret("online", "Ok")
                /\ state' = Plain("Open")
                /\ device' /\ device_descriptor'
                /\ sync_state' = "OutOfSync"]_vars

\* A child that was never faulted, so that was Open and then Closed by an
\* unplug(), onlined again.
C14_Witness ==
    /\ ret = Ret("online", "Ok")
    /\ ~faulted_at
    /\ state = Plain("Open")
    /\ sync_state = "OutOfSync"
    /\ device /\ device_descriptor
    /\ destroy_state = "None"
    /\ stale_events = 0 /\ sends = 0

\* The outcome of the entry checks of online(): the error it returns, or
\* "proceeds" when it goes on to re-create the device.
OnlineOutcome ==
    IF opc' = "creating" THEN "proceeds" ELSE ret'.res

\* C15: online() proceeds to re-create the device only when the child is
\* not Destroying and its state is Closed or Faulted(recoverable); otherwise
\* it fails and leaves state, sync_state, device and descriptor unchanged.
\* The checks are made in this order: CannotOnlineChild for Open, Init and
\* ConfigInvalid (Destroying or not), then ChildBeingDestroyed when
\* Destroying (whatever the remaining state, Faulted(non-recoverable)
\* included), then PermanentlyFaulted for Faulted(non-recoverable).
C15_OnlineEntryChecks ==
    [][OnlineCall =>
         /\ OnlineOutcome =
               IF state.k \in {"Open", "Init", "ConfigInvalid"}
               THEN "CannotOnlineChild"
               ELSE IF destroy_state = "Destroying"
               THEN "ChildBeingDestroyed"
               ELSE IF state.k = "Faulted" /\ ~ReasonIsRecoverable(state.r)
               THEN "PermanentlyFaulted"
               ELSE "proceeds"
         /\ OnlineOutcome = "proceeds"
               => /\ destroy_state # "Destroying"
                  /\ \/ state.k = "Closed"
                     \/ state.k = "Faulted" /\ ReasonIsRecoverable(state.r)
         /\ UNCHANGED <<state, sync_state, device, device_descriptor>>]_vars

\* A permanently faulted child that is not being destroyed was refused.
C15_Witness ==
    /\ ret = Ret("online", "PermanentlyFaulted")
    /\ state.k = "Faulted" /\ ~ReasonIsRecoverable(state.r)
    /\ destroy_state = "None"
    /\ opc = "idle"

\* C15 as stated: every online() of a Faulted(non-recoverable) child fails
\* with PermanentlyFaulted, and every other online() of a child that is
\* being destroyed and is not Open, Init or ConfigInvalid fails with
\* ChildBeingDestroyed.
C15_PermanentlyFaultedAlways ==
    [][OnlineCall =>
         /\ (state.k = "Faulted" /\ ~ReasonIsRecoverable(state.r))
               => OnlineOutcome = "PermanentlyFaulted"
         /\ (state.k \in {"Open", "Init", "ConfigInvalid"})
               => OnlineOutcome = "CannotOnlineChild"
         /\ (destroy_state = "Destroying" /\ state.k = "Closed")
               => OnlineOutcome = "ChildBeingDestroyed"]_vars

\* C16: open(parent_size, s) on a child whose state is already Open
\* changes nothing (state, sync_state, device, descriptor, claim,
\* destroy_state, faulted_at) and does not abort, for every parent_size and
\* every s; it returns Ok(uri) when the child is not being destroyed and
\* ChildBeingDestroyed when it is.
C16_ReopenIsNoOp ==
    [][\A ps \in ParentSizes, s \in SyncStates :
         (state.k = "Open" /\ Open(ps, s))
         => /\ ret' = Ret("open", IF destroy_state = "Destroying"
                                  THEN "ChildBeingDestroyed" ELSE "Ok")
            /\ child_abort' = "no"
            /\ UNCHANGED <<state, sync_state, device, device_descriptor,
                           claimed, destroy_state, faulted_at>>]_vars

\* open() was refused on an Open child during the destroy choreography: no
\* close() has returned since, and a child does not become Open while it
\* is being destroyed.
C16_Witness ==
    /\ ret = Ret("open", "ChildBeingDestroyed")
    /\ state = Plain("Open")
    /\ destroy_state = "Destroying"
    /\ device /\ device_descriptor

\* C16 as stated: every open() on an Open child returns Ok and changes
\* nothing.
C16_ReopenAlwaysOk ==
    [][\A ps \in ParentSizes, s \in SyncStates :
         (state.k = "Open" /\ Open(ps, s))
         => /\ ret' = Ret("open", "Ok")
            /\ UNCHANGED <<state, sync_state, device, device_descriptor,
                           destroy_state, faulted_at>>]_vars

C18_CloseOnInit ==
    [][state.k = "Init" =>
         /\ \A c \in Closers, ok \in BOOLEAN :
               CloseCall(c, "NoReason", ok)
               => /\ state' = state /\ sync_state' = sync_state
                  /\ ~device => /\ ret'.res \in {"OkNoDevice", "OkAlreadyClosing"}
                                /\ destroy_state' = destroy_state
                  /\ (~device /\ destroy_state = "None")
                        => ret' = Ret("close", "OkNoDevice")
                  /\ destroy_state = "Destroying"
                        => /\ ret' = Ret("close", "OkAlreadyClosing")
                           /\ destroy_state' = "Destroying"
         /\ \A c \in Closers :
               (DeviceDestroyReturn(c) /\ creason[c] = "NoReason")
               => /\ cpc'[c] = "idle"
                  /\ ret' = Ret("close", cres[c])
                  /\ destroy_state' = "None"
                  /\ state' = state /\ sync_state' = sync_state
         /\ ((\E c \in Closers : Unplug(c)) \/ UnplugLate)
               => /\ state' = state /\ sync_state' = sync_state
                  /\ destroy_state' = destroy_state]_vars

\* close() of an Init child holding a device has returned Ok, the removal
\* event of its device_destroy was delivered while it was suspended, and
\* the signal of that unplug() is in the channel.
C18_Witness ==
    /\ ret = Ret("close", "Ok")
    /\ state = Plain("Init")
    /\ destroy_state = "None"
    /\ ~device
    /\ remove_channel = 1
    /\ stale_events = 0

\* C18 as stated: the close() of an Init child that holds a device returns
\* Ok with destroy_state None and the state unchanged.
C18_CloseOnInitReturnsOk ==
    [][state.k = "Init" =>
         \A c \in Closers :
            (DeviceDestroyReturn(c) /\ creason[c] = "NoReason")
            => /\ ret' = Ret("close", "Ok")
               /\ destroy_state' = "None"
               /\ state' = state /\ sync_state' = sync_state]_vars

\* C19: close_faulted(reason) ends with Faulted(reason) and faulted_at set
\* whatever the starting state and the outcome of the inner close(); when
\* the inner close() destroyed the device and waited for the removal
\* signal, the child has no descriptor on return and state_client()
\* reports Faulted(reason).
C19_CloseFaulted ==
    [][/\ \A c \in Closers, r \in InputReasons, ok \in BOOLEAN :
             (CloseCall(c, r, ok) /\ cpc'[c] = "idle")
             => (state' = Faulted(r) /\ faulted_at')
       /\ \A c \in Closers :
             (creason[c] # "NoReason" /\ cpc[c] # "idle" /\ cpc'[c] = "idle")
             => /\ state' = Faulted(creason[c])
                /\ faulted_at'
                /\ cpc[c] = "wait"
                     => /\ ~device_descriptor'
                        /\ ChildStateClient' = Faulted(creason[c])]_vars

(***************************************************************************)
(* Properties of state_client().                                           *)
(***************************************************************************)
\* C20: state_client() reports OutOfSync for Open with OutOfSync,
\* Faulting(r) for Faulted(r) when the child owns a descriptor or is being
\* destroyed, and otherwise the client state of the same name, so
\* Faulted(r) for a Faulted(r) child with no descriptor that is not being
\* destroyed.
C20_StateClientTable ==
    sc_ret # NotCalled =>
       sc_ret = IF sc_arg.st.k = "Open" /\ sc_arg.sync = "OutOfSync"
                THEN Plain("OutOfSync")
                ELSE IF sc_arg.st.k = "Faulted"
                        /\ (sc_arg.desc \/ sc_arg.destroying)
                THEN [k |-> "Faulting", r |-> sc_arg.st.r]
                ELSE sc_arg.st

\* A Faulted child without a descriptor that is being destroyed was
\* reported as Faulting.
C20_Witness ==
    /\ sc_arg.st = Faulted("IoError")
    /\ ~sc_arg.desc /\ sc_arg.destroying
    /\ sc_ret = [k |-> "Faulting", r |-> "IoError"]

\* C20 as stated: Faulting(r) exactly for Faulted(r) with a descriptor,
\* whatever the destroy state.
C20_FaultingOnlyWithDescriptor ==
    sc_ret # NotCalled =>
       sc_ret = IF sc_arg.st.k = "Open" /\ sc_arg.sync = "OutOfSync"
                THEN Plain("OutOfSync")
                ELSE IF sc_arg.st.k = "Faulted" /\ sc_arg.desc
                THEN [k |-> "Faulting", r |-> sc_arg.st.r]
                ELSE sc_arg.st

(***************************************************************************)
(* Properties of the rebuild job: completion, scheduling, liveness.        *)
(***************************************************************************)
\* A Pause is pending and the job still has work, or the run loop is on its
\* way to reconcile().
PauseHolds ==
    /\ pending = "Paused"
    /\ active > 0 \/ next < range_end \/ rpc = "reconcile"

Dispatched == {i \in TaskIds : tasks'[i].st = "busy" /\ tasks'[i] # tasks[i]}
DispatchedBlks == {tasks'[i].blk : i \in Dispatched}

\* C25: the blocks passed to send_segment are range.start, range.start+S,
\* ... below range.end, each once and in increasing order (every block
\* dispatched by a step is one of the progression, at or above next, and
\* next moves past it; every block dispatched earlier is below next); next
\* never decreases and stays within the range; at most SEGMENT_TASKS tasks
\* are active, active counting the slots in use; and a slot gets a new
\* segment on completion only while no non-Running state is pending.
C25_SegmentScheduling ==
    [][/\ range_start <= next /\ next <= range_end
       /\ next' >= next
       /\ next = range_end \/ (next - range_start) % SegmentSizeBlks = 0
       /\ active <= SegmentTasks
       /\ active = Cardinality({i \in TaskIds : tasks[i].st # "idle"})
       /\ \A i \in TaskIds : tasks[i].st # "idle" => tasks[i].blk < next
       /\ \A i \in Dispatched :
             /\ tasks'[i].blk >= next /\ tasks'[i].blk < next'
             /\ tasks'[i].blk < range_end
             /\ (tasks'[i].blk - range_start) % SegmentSizeBlks = 0
       /\ Cardinality(DispatchedBlks) = Cardinality(Dispatched)
       /\ DispatchedBlks =
             {next + k * SegmentSizeBlks : k \in 0 .. Cardinality(Dispatched) - 1}
       /\ next' = Min(next + Cardinality(Dispatched) * SegmentSizeBlks,
                      range_end)
       /\ (Dispatched # {} /\ rpc \in {"select", "drain"})
             => pending \in {"None", "Running"}]_vars

\* The last segment of the range is in flight after an earlier one was
\* copied.
C25_Witness ==
    /\ current = "Running"
    /\ segments_done > 0
    /\ next = range_end
    /\ \E i \in TaskIds :
          /\ tasks[i].st = "busy"
          /\ tasks[i].blk + SegmentSizeBlks >= range_end
          /\ tasks[i].blk > range_start

\* stats(): the assertion progress < 100 || blocks_remaining == 0, for a job
\* whose range is not empty.
StatsAssertion(done, ms, d) ==
    \/ (BlocksRecovered(done) * 100) \div BlocksTotal < 100
    \/ BlocksRemaining(done, ms, d) = 0

\* C27: no evaluation of stats() (GetStats reply, state change in
\* reconcile, start_all_tasks, Drop) fails its assertion: the job never
\* aborts in stats() other than by the division of an empty range, and
\* wherever stats() is about to be evaluated the assertion holds.
C27_StatsAssertionHolds ==
    /\ rpc = "panic" => BlocksTotal = 0
    /\ (BlocksTotal > 0 /\ rpc \in {"start", "exit"})
          => StatsAssertion(segments_done, map_set, dirty)

\* What excuses a Running job from completing: it is paused again (and must
\* be resumed), a segment copy failed, a Stop was asked for, or a rebuild
\* map was sent.
NotPlainRun ==
    \/ current = "Paused"
    \/ task_failed
    \/ pending = "Stopped" \/ current = "Stopped"
    \/ map_set

\* C26: a job that is Running, whose tasks complete without error, reaches
\* Completed and the run loop exits, whatever GetStats, WakeUp, Pause and
\* Resume requests arrive, once it is no longer paused; and start_all_tasks
\* on a job with no segment left dispatches nothing and completes it.
C26_RunningJobCompletes ==
    /\ current = "Running"
          ~> \/ current = "Completed" /\ rpc \in {"exit", "dropped"}
             \/ NotPlainRun
    /\ [][(rpc = "start" /\ rpc' # "start" /\ next >= range_end /\ ~map_set)
            => (pending' = "Completed" /\ tasks' = tasks
                /\ rpc' = "reconcile")]_vars

(***************************************************************************)
(* Properties of the child: the removal channel and unplug().              *)
(***************************************************************************)
\* C28: for a child that owns a descriptor (so that removal events reach
\* its unplug()): while no close() is inside its destroy choreography,
\* remove_channel holds no signal and no unplug_complete send is
\* outstanding; and the signal a waiting close() receives is the one of the
\* unplug() that its own destroy raised.
C28_NoStaleSignal ==
    [][/\ (device_descriptor /\ \A c \in Closers : cpc[c] = "idle")
            => (remove_channel = 0 /\ sends = 0)
       /\ \A c \in Closers :
            (device_descriptor /\ cpc[c] = "wait" /\ cpc'[c] = "idle")
            => cev[c] = "delivered"]_vars

\* C29: a close() that holds Destroying eventually returns, and it returns
\* with destroy_state None (or the process has aborted in open()).
C29_CloseReturns ==
    /\ \A c \in Closers :
          (cpc[c] # "idle") ~> (cpc[c] = "idle" \/ child_abort # "no")
    /\ [][\A c \in Closers :
            (cpc[c] # "idle" /\ cpc'[c] = "idle") => destroy_state' = "None"]_vars

\* C30: a call of unplug() that found the child being destroyed has, at its
\* end, executed in this order: device dropped; state set to Closed if it
\* was Open at entry; unless the state at entry was Faulted(IoError), the
\* parent looked up and, when found, its reconfigure started and completed;
\* descriptor dropped; signal spawned. The descriptor is dropped at that
\* statement only, and the signals of the channel (buffered or still to be
\* sent) grow by one, at the last statement only.
C30_UnplugOrder ==
    [][ /\ (unplug_pc' = "done" /\ is_destroying') =>
              unplug_log' =
                  <<"device">>
                  \o (IF unplug_state'.k = "Open" THEN <<"closed">> ELSE <<>>)
                  \o (IF unplug_state' = Faulted("IoError") THEN <<>>
                      ELSE IF nexus_found'
                      THEN <<"reconfigure", "reconfigured">>
                      ELSE <<"not_found">>)
                  \o <<"descriptor", "signal">>
        /\ device_descriptor' # device_descriptor =>
              /\ unplug_pc = "descriptor"
              /\ unplug_state # Faulted("IoError") /\ nexus_found =>
                    \E i \in DOMAIN unplug_log : unplug_log[i] = "reconfigured"
        /\ sends' + remove_channel' # sends + remove_channel =>
              /\ unplug_pc = "complete"
              /\ sends' + remove_channel' = sends + remove_channel + 1 ]_vars

\* C30: witness - unplug() of an Open child that is being destroyed has
\* run all six statements and its signal is in the channel.
C30_Witness ==
    /\ unplug_pc = "done" /\ is_destroying
    /\ unplug_state.k = "Open" /\ state.k = "Closed"
    /\ ~device /\ ~device_descriptor
    /\ Len(unplug_log) = 6
    /\ remove_channel = 1 /\ sends = 0

\* C30 as stated: with the parent present, every unplug() on the destroy
\* path requests and completes the reconfigure between the state change
\* and the drop of the descriptor.
C30_ReconfigureAlways ==
    [][(unplug_pc' = "done" /\ is_destroying' /\ nexus_found') =>
          unplug_log' =
              <<"device">>
              \o (IF unplug_state'.k = "Open" THEN <<"closed">> ELSE <<>>)
              \o <<"reconfigure", "reconfigured", "descriptor", "signal">>]_vars

(***************************************************************************)
(* Properties of the reservation protocol.                                 *)
(***************************************************************************)
\* Every call reservation_acquire made on the handle succeeded.
NoVerbError ==
    /\ calls # <<>>
    /\ \A i \in DOMAIN calls : calls[i].res = "Ok"

\* C21: when every verb of reservation_acquire has succeeded, the
\* resv_check_holder it ends with returns Ok.
C21_CheckAfterAcquire ==
    (resv_pc = "done" /\ NoVerbError) => resv_ret = "Ok"

\* The last call reservation_acquire made on the handle.
LastCall == calls[Len(calls)]
ResvVerbs == {"register", "acquire", "preempt", "release", "report"}

\* C22: a reservation_acquire whose last verb returned NotSupported returns
\* Ok, and one whose last verb failed otherwise returns the ChildError of
\* that verb.
C22_NotSupportedSkips ==
    (resv_pc = "done" /\ calls # <<>> /\ LastCall.verb \in ResvVerbs) =>
        /\ LastCall.res = "NotSupported" => resv_ret = "Ok"
        /\ LastCall.res = "Err" => resv_ret = VerbError(LastCall.verb)

\* C23: reservation_acquire returns Ok without a call on the handle when
\* NEXUS_NVMF_RESV_ENABLE is absent or empty or reservations are disabled,
\* and calls the handle only when the variable is set to a non-empty value
\* and reservations are enabled.
C23_SkipGate ==
    /\ (resv_pc = "done" /\ (resv_env \in {"absent", "empty"}
                              \/ ~params.enabled)) =>
          (calls = <<>> /\ resv_ret = "Ok")
    /\ calls # <<>> =>
          (resv_env \notin {"absent", "empty"} /\ params.enabled)

(***************************************************************************)
(* Properties of unplug().                                                 *)
(***************************************************************************)
\* How often statement x occurs in the statements executed by unplug().
Executed(x) == Cardinality({i \in DOMAIN unplug_log : unplug_log[i] = x})

\* C31: unplug() of an Open child that is not being destroyed ends with the
\* state Closed and device and descriptor kept, having set the state, then
\* requested and completed the reconfigure of the parent (when the parent
\* is found), then signalled; no statement of unplug() changes sync_state
\* or destroy_state; the state changes only if it was Open at entry, and
\* then to Closed; outside the destroy path device and descriptor stay.
C31_HotRemove ==
    [][ /\ (/\ unplug_pc' = "done" /\ ~is_destroying'
            /\ unplug_state'.k = "Open" /\ nexus_found') =>
              /\ state' = Plain("Closed")
              /\ device' /\ device_descriptor'
              /\ unplug_log' =
                    <<"closed", "reconfigure", "reconfigured", "signal">>
        /\ sync_state' = sync_state /\ destroy_state' = destroy_state
        /\ state' # state =>
              (unplug_state.k = "Open" /\ state' = Plain("Closed"))
        /\ (unplug_pc' = "done" /\ unplug_state'.k # "Open") =>
              state' = unplug_state'
        /\ ~is_destroying' =>
              (device' = device /\ device_descriptor' = device_descriptor
               /\ claimed' = claimed) ]_vars

\* C31: witness - a hot remove of an Open, out-of-sync child has completed.
C31_Witness ==
    /\ unplug_pc = "done" /\ ~is_destroying /\ nexus_found
    /\ unplug_state.k = "Open" /\ state.k = "Closed"
    /\ device /\ device_descriptor
    /\ sync_state = "OutOfSync" /\ destroy_state = "None"

\* C32: with the parent present, a completed unplug() has requested the
\* reconfigure once if the state read at entry was not Faulted(IoError)
\* and never if it was; at no point has it requested it twice.
C32_ReconfigureOnce ==
    /\ Executed("reconfigure") <= 1
    /\ (unplug_pc = "done" /\ nexus_found) =>
          Executed("reconfigure") =
              IF unplug_state = Faulted("IoError") THEN 0 ELSE 1
    /\ Executed("reconfigured") <= Executed("reconfigure")
    /\ unplug_pc = "done" => Executed("reconfigured") = Executed("reconfigure")

\* C32: witness - unplug() of a child faulted with an I/O error has
\* completed, parent present, without a reconfigure.
C32_Witness ==
    /\ unplug_pc = "done" /\ nexus_found
    /\ unplug_state = Faulted("IoError")
    /\ Executed("reconfigure") = 0 /\ Executed("signal") = 1

(***************************************************************************)
(* Properties of the child: open() and the device it needs.                *)
(***************************************************************************)
\* C33: every open(): while Destroying it returns ChildBeingDestroyed, on
\* a permanently faulted child ChildFaulted, and in both cases and on a
\* ConfigInvalid child it leaves state, sync_state, device and descriptor
\* as they are; it makes a child Open only from Init, Closed or
\* Faulted(recoverable) and never while Destroying.
C33_OpenOnlyFromOpenable ==
    [][\A ps \in ParentSizes, s \in SyncStates :
         Open(ps, s) =>
            /\ IsDestroying =>
                  /\ ret' = Ret("open", "ChildBeingDestroyed")
                  /\ UNCHANGED <<state, sync_state, device, device_descriptor>>
            /\ (~IsDestroying /\ IsPermFaulted(state)) =>
                  /\ ret' = Ret("open", "ChildFaulted")
                  /\ UNCHANGED <<state, sync_state, device, device_descriptor>>
            /\ state.k = "ConfigInvalid" =>
                  UNCHANGED <<state, sync_state, device, device_descriptor>>
            /\ (state'.k = "Open" /\ state.k # "Open") =>
                  /\ ~IsDestroying
                  /\ \/ state.k \in {"Init", "Closed"}
                     \/ state.k = "Faulted" /\ ReasonIsRecoverable(state.r)]_vars

\* C34: open() never aborts at `self.device.as_ref().unwrap()` on a child
\* in state Closed: a Closed child that open() may be called on holds a
\* device.
C34_OpenFindsDevice ==
    ~(child_abort = "open_unwrap" /\ state.k = "Closed")

(***************************************************************************)
(* Properties of the I/O log.                                              *)
(***************************************************************************)
\* C35: start_io_log() returns; it creates a log only with the switch on,
\* sync_state Synced, no log yet and a device present; with the switch off
\* or on an OutOfSync child it returns false and leaves the log slot as it
\* was; it leaves an existing log in place.  stop_io_log() returns a map
\* exactly when a log existed and leaves the child without a log.
C35_IoLogStartStop ==
    [][ /\ StartIoLog =>
              /\ child_abort' = "no"
              /\ ret'.op = "start_io_log"
              /\ (io_log' /\ ~io_log) =>
                    (enable_partial_rebuild /\ sync_state = "Synced" /\ device)
              /\ (~enable_partial_rebuild \/ sync_state = "OutOfSync") =>
                    (ret'.res = "false" /\ io_log' = io_log)
              /\ io_log => io_log'
        /\ StopIoLog =>
              /\ ret' = Ret("stop_io_log", IF io_log THEN "Some" ELSE "None")
              /\ ~io_log' ]_vars

\* C36: with the switch on, an OutOfSync child has no I/O log, and the
\* assertion of start_io_log() never fails.
C36_OutOfSyncHasNoLog ==
    enable_partial_rebuild =>
        /\ child_abort # "io_log_assert"
        /\ sync_state = "OutOfSync" => ~io_log


\* C37: a reconcile() that changes the current state calls notify_fn exactly
\* once and sends exactly one message, the new current state, on
\* notify_chan; a reconcile() that leaves the current state as it was calls
\* and sends nothing; no other step changes the current state or emits a
\* notification, so the messages on notify_chan are the distinct consecutive
\* current states of the job.
C37_NotifyOnChange ==
    [][ /\ BackendReconcile =>
              IF current' # current
              THEN notify_fn' = 1 /\ notify_chan' = <<current'>>
              ELSE notify_fn' = 0 /\ notify_chan' = <<>>
        /\ ~BackendReconcile =>
              UNCHANGED <<current, notify_fn, notify_chan>> ]_vars


\* run(): the step receives a SetRebuildMap request, in the outer loop (the
\* job is not Running) or in select! (the job is Running).
ReceivesSetRebuildMap ==
    /\ BackendRecv \/ BackendSelectRequest
    /\ info_chan # <<>>
    /\ Head(info_chan).t = "SetRebuildMap"

\* C38: the rebuild map is installed at most once: a SetRebuildMap request
\* received while no map is stored stores its map, one received later leaves
\* the stored map as it is, and either way, in the outer loop as in select!,
\* the request is acknowledged on its oneshot channel; no other step installs
\* a map, and is_partial (a map is stored) never goes from true to false.
C38_MapInstalledOnce ==
    [][ /\ ReceivesSetRebuildMap =>
              /\ oneshot' = "ack"
              /\ map_set'
              /\ dirty' = IF map_set THEN dirty ELSE Head(info_chan).m
        /\ map_set => map_set'
        /\ (map_set' /\ ~map_set) => ReceivesSetRebuildMap ]_vars

\* A request that arrived while the job was Running and a map was stored
\* has been acknowledged, the stored map still marking a segment.
C38_Witness ==
    /\ map_set /\ dirty # {}
    /\ oneshot = "ack"
    /\ current = "Running" /\ rpc = "select"
    /\ segments_done > 0


\* The calls of a run in which each of the given verbs succeeded.
AllOk(verbs) == [i \in DOMAIN verbs |-> [verb |-> verbs[i], res |-> "Ok"]]

\* C39: when reservation_preempt_holder returns Ok it has issued, after one
\* successful register and the report: an acquire without preempt key when
\* no holder is reported; nothing when the holder is this host with the
\* desired type and key; a preempt of the holder's key when the existing
\* type is not an all-registrants type, followed by a register and an
\* acquire if the holder was this host under another type and by a plain
\* acquire otherwise; a release when the existing type is an
\* all-registrants type, followed by an acquire if the desired type is not
\* one, and nothing if it is. When the register returned NotSupported
\* nothing else was issued.
C39_PreemptHolderVerbs ==
    (resv_pc = "check" /\ params.preempt_policy = "Holder") =>
        IF calls[1].res = "NotSupported"
        THEN calls = <<[verb |-> "register", res |-> "NotSupported"]>>
        ELSE LET exact == /\ existing.rtype = params.resv_type
                          /\ existing.rkey = params.resv_key
                          /\ existing.hostid = my_hostid
                 more ==
                    IF existing = NoOwner THEN <<"acquire">>
                    ELSE IF exact THEN <<>>
                    ELSE IF ~Shared(existing.rtype)
                    THEN IF existing.hostid = my_hostid
                            /\ existing.rtype # params.resv_type
                         THEN <<"preempt", "register", "acquire">>
                         ELSE <<"preempt", "acquire">>
                    ELSE IF ~Shared(params.resv_type)
                    THEN <<"release", "acquire">>
                    ELSE <<>>
             IN  calls = AllOk(<<"register", "report">> \o more)

\* This host held the reservation under another type: it has preempted
\* itself, registered again and acquired.
C39_Witness ==
    /\ resv_pc = "check" /\ params.preempt_policy = "Holder"
    /\ calls = AllOk(<<"register", "report", "preempt", "register", "acquire">>)
    /\ existing.hostid = my_hostid


\* resv_check_holder has read a report and returns: the device supports
\* reservations and the handle, the buffer and host_id() were to be had.
CheckHolderReturns ==
    /\ resv_pc = "check" /\ resv_pc' = "done"
    /\ calls' = Called("report", "Ok")

\* C40: resv_check_holder on a device that supports reservations returns Ok
\* exactly when the reported type is the desired one or both are
\* all-registrants types, and the desired type is an all-registrants type or
\* the report lists a holder with resv_key and the id of this host; it
\* returns ResvType on any other mismatch of the types, ResvNoHolder when
\* the desired type is not an all-registrants type and the report lists no
\* holder, and Holder when the holder has another key or is another host.
C40_CheckHolderResult ==
    [][ CheckHolderReturns =>
          LET type_ok == \/ ns.rtype = params.resv_type
                         \/ Shared(ns.rtype) /\ Shared(params.resv_type)
              listed == ResvHolders(ns) \ {NoOwner}
              mine == \E o \in listed : /\ o.rkey = params.resv_key
                                         /\ o.hostid = my_hostid
          IN  /\ resv_ret' = "Ok" <=>
                    (type_ok /\ (Shared(params.resv_type) \/ mine))
              /\ ~type_ok => resv_ret' = "ResvType"
              /\ (type_ok /\ ~Shared(params.resv_type) /\ listed = {})
                    => resv_ret' = "ResvNoHolder"
              /\ (type_ok /\ ~Shared(params.resv_type) /\ listed # {}
                    /\ ~mine) => resv_ret' = "Holder" ]_vars

\* resv_check_holder found the desired type held by the other host and
\* returned Holder.
C40_Witness ==
    /\ resv_pc = "done" /\ resv_ret = "Holder"
    /\ calls # <<>> /\ LastCall = [verb |-> "report", res |-> "Ok"]
    /\ ns.rtype = params.resv_type /\ ns.holder # my_hostid

====
